---- MODULE Spec2Model ----
(***************************************************************************)
(* Event ingestion of the GitHub processor node.                           *)
(*                                                                         *)
(* Text that the code parses or builds (owner, repository name, repository *)
(* identifier, URL, commit SHA) is a sequence of one-character strings, so *)
(* that startswith, split, index and slicing are computed as the code      *)
(* computes them.  Text that the code only stores or compares (event       *)
(* identifier, event kind, message) is a TLA+ string.  A JSON object is a  *)
(* function from its keys to its values; the empty object is <<>>.         *)
(***************************************************************************)
EXTENDS Integers, Sequences, FiniteSets, TLC

VARIABLES
    repositories,        \* rows of table repositories (index_db.py:12-17)
    events,              \* rows of table events (index_db.py:22-31)
    cache,               \* proc.cache: event identifier -> manifest hash of the cached bundle
    repository_service,  \* handlers.py:18, TRUE once set_repository_service ran
    now,                 \* the clock read by CURRENT_TIMESTAMP
    calls,               \* number of operations started so far
    last,                \* what the most recent operation was and what it returned
    pc,                  \* per thread: position inside handle_event_bundle
    task,                \* per thread: arguments and locals of its running call
    repo_locks,          \* cache_manager.py:10, lock key -> lock object (its index in locks)
    locks,               \* the asyncio.Lock objects created so far: holder and waiters
    oplog,               \* per repository directory, the effects of the locked operations
    clears,              \* number of clear_locks calls so far
    codec,               \* arguments and result of the last identifier conversion
    disc                 \* the last network notification handled, and the kobj queue

vars == <<repositories, events, cache, repository_service, now, calls, last, pc, task,
          repo_locks, locks, oplog, clears, codec, disc>>

-----------------------------------------------------------------------------
(* Bounds of the model *)

MaxTime == 2
MaxCalls == 2
MaxDays == 1
MaxClears == 1
MaxLen == 4

-----------------------------------------------------------------------------
(* Text helpers *)

Null == <<"<NULL>">>

Prefix == <<"o","r","n",":","g","i","t","h","u","b",".","r","e","p","o",":">>
DotGit == <<".","g","i","t">>

StartsWith(s, p) == Len(s) >= Len(p) /\ SubSeq(s, 1, Len(p)) = p

\* s[n:]
From(s, n) == SubSeq(s, n + 1, Len(s))

\* s[:n]
Take(s, n) == SubSeq(s, 1, IF Len(s) < n THEN Len(s) ELSE n)

\* first position of character c in s, 0 when absent
RECURSIVE Find(_, _, _)
Find(s, c, i) ==
    IF i > Len(s) THEN 0
    ELSE IF s[i] = c THEN i
    ELSE Find(s, c, i + 1)

\* s.split(c): the segments between the occurrences of c
RECURSIVE Split(_, _)
Split(s, c) ==
    LET i == Find(s, c, 1)
    IN  IF i = 0 THEN <<s>>
        ELSE <<SubSeq(s, 1, i - 1)>> \o Split(From(s, i), c)

\* list.index(x) of a list that contains x
RECURSIVE Index(_, _, _)
Index(parts, x, i) ==
    IF parts[i] = x THEN i ELSE Index(parts, x, i + 1)

Contains(parts, x) == \E i \in 1..Len(parts) : parts[i] = x

Has(d, k) == k \in DOMAIN d

\* d.get(k, default)
Get(d, k, default) == IF Has(d, k) THEN d[k] ELSE default

-----------------------------------------------------------------------------
(* utils.py *)

owner_repo_to_repo_rid(owner, repo) == Prefix \o owner \o <<"/">> \o repo

\* a split on every slash that keeps the first two segments
repo_rid_to_owner_repo_split_all(repo_rid) ==
    IF ~StartsWith(repo_rid, Prefix) \/ Find(From(repo_rid, Len(Prefix)), "/", 1) = 0
    THEN [ok |-> FALSE, owner |-> <<>>, repo |-> <<>>]
    ELSE [ok |-> TRUE,
          owner |-> Split(From(repo_rid, Len(Prefix)), "/")[1],
          repo |-> Split(From(repo_rid, Len(Prefix)), "/")[2]]

\* ok = FALSE stands for the ValueError
repo_rid_to_owner_repo(repo_rid) ==
    IF ~StartsWith(repo_rid, Prefix)
    THEN [ok |-> FALSE, owner |-> <<>>, repo |-> <<>>]
    ELSE LET owner_repo == From(repo_rid, Len(Prefix))
             i == Find(owner_repo, "/", 1)
         IN  IF i = 0
             THEN [ok |-> FALSE, owner |-> <<>>, repo |-> <<>>]
             ELSE [ok |-> TRUE,
                   owner |-> SubSeq(owner_repo, 1, i - 1),
                   repo |-> From(owner_repo, i)]

\* str.replace("/", "__")
RECURSIVE ReplaceSlash(_)
ReplaceSlash(x) ==
    IF x = <<>> THEN <<>>
    ELSE (IF Head(x) = "/" THEN <<"_", "_">> ELSE <<Head(x)>>) \o ReplaceSlash(Tail(x))

\* a raised ValueError, where the result is otherwise a text
ValueError == <<"<ValueError>">>

\* lines 9-28
repo_rid_to_dirname(repo_rid) ==
    IF ~StartsWith(repo_rid, Prefix) THEN ValueError
    ELSE ReplaceSlash(From(repo_rid, Len(Prefix))) \o DotGit

\* event_type.replace('_', ' ').title() on the event kinds of the model
Title(event_type) ==
    CASE event_type = "repository" -> "Repository"
      [] event_type = "commit" -> "Commit"
      [] event_type = "push" -> "Push"
      [] event_type = "pull_request" -> "Pull Request"
      [] event_type = "issues" -> "Issues"
      [] event_type = "release" -> "Release"
      [] OTHER -> event_type

\* The summary as the sequence of its fragments: literal text as one
\* fragment, interpolated text character by character.
Where(p) ==
    (IF p.ok THEN p.owner ELSE <<"unknown">>) \o <<"/">>
        \o (IF p.ok THEN p.repo ELSE <<"unknown">>)

Summary(event_type, where, commit_sha, additional_info) ==
    CASE event_type = "push" ->
           IF commit_sha # Null /\ commit_sha # <<>>
           THEN <<"Push to ">> \o where \o <<": ">> \o Take(commit_sha, 7)
           ELSE <<"Push to ">> \o where
      [] event_type = "pull_request" ->
           <<"Pull request #">> \o Get(additional_info, "number", <<"unknown">>)
             \o <<" ", Get(additional_info, "action", "updated"), " in ">> \o where
      [] event_type = "issues" ->
           <<"Issue #">> \o Get(additional_info, "number", <<"unknown">>)
             \o <<" ", Get(additional_info, "action", "updated"), " in ">> \o where
      [] event_type = "release" ->
           <<"Release ">> \o Get(additional_info, "tag_name", <<"unknown">>)
             \o <<" created in ">> \o where
      [] OTHER -> <<Title(event_type), " event in ">> \o where

summarize_event(event_type, repo_rid, commit_sha, additional_info) ==
    Summary(event_type, Where(repo_rid_to_owner_repo(repo_rid)), commit_sha,
            additional_info)

-----------------------------------------------------------------------------
(* The payloads delivered in the model *)

OwnerA == <<"a">>
OwnerB == <<"b">>
RepoR == <<"r">>
Url1 == <<"u","1">>
Url2 == <<"u","2">>
Sha1 == <<"a","b","c","1","2","3","4","5">>
Sha2 == <<"d","e","f">>
Repos == <<"r","e","p","o","s">>
GitHubCom == <<"h","t","t","p","s",":","/","/","g","i","t","h","u","b",".","c","o","m","/">>

\* https://h/repos/<owner>/<repo>/commits/<sha>
CommitUrl(owner, repo, sha) ==
    <<"h","t","t","p","s",":","/","/","h","/">> \o Repos \o <<"/">> \o owner
      \o <<"/">> \o repo \o <<"/","c","/">> \o sha

RepoObject(owner, repo, url) ==
    [owner |-> [login |-> owner], name |-> repo, clone_url |-> url]

CommitObject(date, message) ==
    [author |-> [date |-> date], message |-> message]

PayloadIds ==
    {"push1", "push2", "push_wrapped", "issue", "pr_nohead_id", "bad_repository",
     "repo_details", "commit", "commit_no_sha", "commit_no_repos",
     "commit_short_url", "other_backfill", "unknown", "empty"}

Payload(pid) ==
    CASE pid = "push1" ->
           [repository |-> RepoObject(OwnerA, RepoR, Url1),
            head_commit |-> [id |-> Sha1, timestamp |-> 1, message |-> "m1"]]
      [] pid = "push2" ->
           [repository |-> RepoObject(OwnerA, RepoR, Url2),
            head_commit |-> [id |-> Sha2, timestamp |-> 2, message |-> "m2"]]
      [] pid = "push_wrapped" ->
           [repository |-> RepoObject(OwnerA, RepoR, Url1),
            head_commit |-> [id |-> Sha1, timestamp |-> 1, message |-> "m1"],
            event_source_type |-> "backfill_commit",
            payload |-> [url |-> CommitUrl(OwnerB, RepoR, Sha2), sha |-> Sha2,
                         commit |-> CommitObject(2, "m2")]]
      [] pid = "issue" ->
           [repository |-> RepoObject(OwnerB, RepoR, Url1),
            event_type |-> "issues", action |-> "opened", number |-> <<"7">>]
      [] pid = "pr_nohead_id" ->
           [repository |-> RepoObject(OwnerA, RepoR, Url1),
            event_type |-> "pull_request",
            head_commit |-> [timestamp |-> 1, message |-> "m1"]]
      [] pid = "bad_repository" ->
           [repository |-> [name |-> RepoR, clone_url |-> Url1]]
      [] pid = "repo_details" ->
           [event_source_type |-> "backfill_repo_details",
            payload |-> RepoObject(OwnerB, RepoR, Url2)]
      [] pid = "commit" ->
           [event_source_type |-> "backfill_commit",
            payload |-> [url |-> CommitUrl(OwnerA, RepoR, Sha2), sha |-> Sha2,
                         commit |-> CommitObject(2, "m2")]]
      [] pid = "commit_no_sha" ->
           [event_source_type |-> "backfill_commit",
            payload |-> [url |-> CommitUrl(OwnerB, RepoR, Sha1),
                         commit |-> CommitObject(1, "m1")]]
      [] pid = "commit_no_repos" ->
           [event_source_type |-> "backfill_commit",
            payload |-> [url |-> <<"h","/">> \o OwnerA \o <<"/">> \o RepoR,
                         sha |-> Sha1, commit |-> CommitObject(1, "m1")]]
      [] pid = "commit_short_url" ->
           [event_source_type |-> "backfill_commit",
            payload |-> [url |-> <<"h","/">> \o Repos \o <<"/">> \o OwnerA,
                         sha |-> Sha1, commit |-> CommitObject(1, "m1")]]
      [] pid = "other_backfill" ->
           [event_source_type |-> "backfill_release",
            payload |-> RepoObject(OwnerA, RepoR, Url1)]
      [] pid = "unknown" -> [zen |-> <<"z">>]
      [] OTHER -> <<>>

-----------------------------------------------------------------------------
(* index_db.py *)

EmptyTs == 0

RepoRow(repo_rid, repo_url, first_indexed, last_updated) ==
    [repo_rid |-> repo_rid, repo_url |-> repo_url,
     first_indexed |-> first_indexed, last_updated |-> last_updated]

\* SELECT 1 FROM repositories WHERE repo_rid = ?
SelectRepo(rows, repo_rid) == \E r \in rows : r.repo_rid = repo_rid

\* an UPDATE that writes the whole row anew
UpdateRepoReplace(rows, repo_rid, repo_url, t) ==
    {IF r.repo_rid = repo_rid THEN RepoRow(repo_rid, repo_url, t, t) ELSE r : r \in rows}

\* an UPDATE that leaves repo_url as it was
UpdateRepoKeepUrl(rows, repo_rid, repo_url, t) ==
    {IF r.repo_rid = repo_rid THEN [r EXCEPT !.last_updated = t] ELSE r : r \in rows}

\* UPDATE repositories SET last_updated = CURRENT_TIMESTAMP, repo_url = ? WHERE repo_rid = ?
UpdateRepo(rows, repo_rid, repo_url, t) ==
    {IF r.repo_rid = repo_rid
     THEN [r EXCEPT !.last_updated = t, !.repo_url = repo_url]
     ELSE r : r \in rows}

\* an INSERT that replaces the table by the new row
InsertRepoOnly(rows, repo_rid, repo_url, t) ==
    [ok |-> TRUE,
     rows |-> {[repo_rid |-> repo_rid, repo_url |-> repo_url, first_indexed |-> t,
                last_updated |-> t]}]

\* INSERT INTO repositories (repo_rid, repo_url): the PRIMARY KEY refuses a
\* second row of the same repo_rid (ok = FALSE is the IntegrityError)
InsertRepo(rows, repo_rid, repo_url, t) ==
    IF SelectRepo(rows, repo_rid)
    THEN [ok |-> FALSE, rows |-> rows]
    ELSE [ok |-> TRUE, rows |-> rows \cup {RepoRow(repo_rid, repo_url, t, t)}]

\* the write of add_repository after its SELECT answered `found`
add_repository_write(rows, repo_rid, repo_url, t, found) ==
    IF found
    THEN [ok |-> TRUE, rows |-> UpdateRepo(rows, repo_rid, repo_url, t)]
    ELSE InsertRepo(rows, repo_rid, repo_url, t)

add_repository(rows, repo_rid, repo_url, t) ==
    add_repository_write(rows, repo_rid, repo_url, t, SelectRepo(rows, repo_rid))

EventRow(event_rid, repo_rid, event_type, timestamp, commit_sha, summary, bundle_rid) ==
    [event_rid |-> event_rid, repo_rid |-> repo_rid, event_type |-> event_type,
     timestamp |-> timestamp, commit_sha |-> commit_sha, summary |-> summary,
     bundle_rid |-> bundle_rid]

\* INSERT OR IGNORE INTO events: the row already stored wins
InsertOrIgnoreEvent(rows, row) ==
    IF \E r \in rows : r.event_rid = row.event_rid THEN rows ELSE rows \cup {row}

\* INSERT INTO an events table whose event_rid is no key
InsertEventNoKey(rows, row) == rows \cup {row}

\* INSERT OR REPLACE INTO events: the row of the same event_rid is replaced
InsertOrReplaceEvent(rows, row) ==
    {r \in rows : r.event_rid # row.event_rid} \cup {row}

\* one transaction: the event row, then the placeholder repository row
\* an insert of the event row that does not look at the repositories table
add_event_metadata_event_only(db, row, t) ==
    [events |-> InsertOrReplaceEvent(db.events, row), repositories |-> db.repositories]

add_event_metadata(db, row, t) ==
    [events |-> InsertOrReplaceEvent(db.events, row),
     repositories |->
        IF SelectRepo(db.repositories, row.repo_rid)
        THEN db.repositories
        ELSE InsertRepo(db.repositories, row.repo_rid,
                        <<"o","r","n",":">> \o row.repo_rid, t).rows]

\* timestamp < datetime('now', '-N days') compares text: the empty timestamp
\* is smaller than every date
Older(timestamp, cutoff) == timestamp = EmptyTs \/ timestamp < cutoff

prune_old_data(rows, days_to_keep, t) ==
    {r \in rows : ~Older(r.timestamp, t - days_to_keep)}

-----------------------------------------------------------------------------
(* repository.py: RepositoryService.process_github_event_bundle *)

Raise == [tag |-> "raise"]

\* an unrecognized payload falls through to the lines that use owner and repo
SkippedFallsThrough(message) == Raise

\* the skipped outcomes of lines 79-83 and 86-90
Skipped(message) == [tag |-> "skipped", message |-> message]

\* the commit URL has no repos segment, or too few segments after it
\* (lines 74 and 76)
CannotParse == [ok |-> FALSE, owner |-> <<>>, repo |-> <<>>]

\* owner and repo are whatever follows the last segment
UrlOwnerRepoLenient(url_parts, repos_index) ==
    [ok |-> TRUE, owner |-> url_parts[Len(url_parts)], repo |-> url_parts[Len(url_parts)]]

\* owner and repo are the repos segment and the one after it
UrlOwnerRepoShifted(url_parts, repos_index) ==
    IF Len(url_parts) > repos_index + 1
    THEN [ok |-> TRUE, owner |-> url_parts[repos_index],
          repo |-> url_parts[repos_index + 1]]
    ELSE CannotParse

\* lines 68-74; repos_index counts from 1
UrlOwnerRepo(url_parts, repos_index) ==
    IF Len(url_parts) > repos_index + 1
    THEN [ok |-> TRUE, owner |-> url_parts[repos_index + 1],
          repo |-> url_parts[repos_index + 2]]
    ELSE CannotParse

\* lines 65-76
ParseCommitUrl(url_parts) ==
    IF Contains(url_parts, Repos)
    THEN UrlOwnerRepo(url_parts, Index(url_parts, Repos, 1))
    ELSE CannotParse

\* lines 64-76 on a commit URL that can be parsed
FromCommitUrl(parsed) ==
    IF parsed.ok
    THEN [tag |-> "ok", owner |-> parsed.owner, repo |-> parsed.repo,
          repo_url |-> GitHubCom \o parsed.owner \o <<"/">> \o parsed.repo \o DotGit,
          event_source |-> "commit"]
    ELSE Raise

\* owner, repo, repo_url and event_source of the payload (lines 45-90)
Normalize(payload) ==
    IF Has(payload, "repository")
    THEN LET r == payload["repository"]
         IN  IF Has(r, "owner") /\ Has(r["owner"], "login") /\ Has(r, "name")
                  /\ Has(r, "clone_url")
             THEN [tag |-> "ok", owner |-> r["owner"]["login"], repo |-> r["name"],
                   repo_url |-> r["clone_url"],
                   event_source |-> Get(payload, "event_type", "push")]
             ELSE Raise
    ELSE IF Has(payload, "event_source_type") /\ Has(payload, "payload")
    THEN LET inner == payload["payload"]
         IN  IF payload["event_source_type"] = "backfill_repo_details"
             THEN IF Has(inner, "owner") /\ Has(inner["owner"], "login")
                       /\ Has(inner, "name") /\ Has(inner, "clone_url")
                  THEN [tag |-> "ok", owner |-> inner["owner"]["login"],
                        repo |-> inner["name"], repo_url |-> inner["clone_url"],
                        event_source |-> "repository"]
                  ELSE Raise
             ELSE IF payload["event_source_type"] = "backfill_commit"
             THEN IF ~Has(inner, "url") THEN Raise
                  ELSE FromCommitUrl(ParseCommitUrl(Split(inner["url"], "/")))
             ELSE Skipped("Unknown backfill event type")
    ELSE Skipped("Event doesn't match any known format")

\* commit_sha, commit_timestamp, commit_message (lines 100-116)
ExtractCommit(payload) ==
    IF Has(payload, "event_source_type")
         /\ payload["event_source_type"] = "backfill_commit"
    THEN IF Has(payload, "payload") /\ Has(payload["payload"], "sha")
              /\ Has(payload["payload"], "commit")
              /\ Has(payload["payload"]["commit"], "author")
              /\ Has(payload["payload"]["commit"]["author"], "date")
              /\ Has(payload["payload"]["commit"], "message")
         THEN [tag |-> "ok", commit_sha |-> payload["payload"]["sha"],
               commit_timestamp |-> payload["payload"]["commit"]["author"]["date"],
               commit_message |-> payload["payload"]["commit"]["message"]]
         ELSE Raise
    ELSE IF Has(payload, "head_commit")
    THEN [tag |-> "ok", commit_sha |-> Get(payload["head_commit"], "id", Null),
          commit_timestamp |-> Get(payload["head_commit"], "timestamp", EmptyTs),
          commit_message |-> Get(payload["head_commit"], "message", "")]
    ELSE [tag |-> "ok", commit_sha |-> Null, commit_timestamp |-> EmptyTs,
          commit_message |-> ""]

\* the event kind that is stored (lines 118-122)
EventTypeStr(payload, event_source) ==
    IF Has(payload, "event_source_type")
    THEN event_source
    ELSE Get(payload, "event_type", "push")

\* Python's truth value of commit_sha
Truthy(commit_sha) == commit_sha # Null /\ commit_sha # <<>>

\* the row handed to add_event_metadata (lines 125-152)
EventRowFrom(kobj_rid, payload, repo_rid_str, c, event_type_str) ==
    IF Truthy(c.commit_sha)
    THEN EventRow(kobj_rid, repo_rid_str, event_type_str, c.commit_timestamp,
                  c.commit_sha,
                  summarize_event(event_type_str, repo_rid_str, c.commit_sha, payload),
                  kobj_rid)
    ELSE EventRow(kobj_rid, repo_rid_str, event_type_str, EmptyTs, Null,
                  summarize_event(event_type_str, repo_rid_str, Null, payload),
                  kobj_rid)

EventRowOf(kobj_rid, payload, repo_rid_str, event_source) ==
    EventRowFrom(kobj_rid, payload, repo_rid_str, ExtractCommit(payload),
                 EventTypeStr(payload, event_source))

\* What a call hands back: its outcome, the tables as it leaves them, and the
\* index_db functions it called.  status "raise" is an exception on its way up.
Result(status, message, kobj_rid, repo_rid, commit_sha, db, dbcalls) ==
    [status |-> status, message |-> message, kobj_rid |-> kobj_rid,
     repo_rid |-> repo_rid, commit_sha |-> commit_sha,
     repositories |-> db.repositories, events |-> db.events, dbcalls |-> dbcalls]

EventIds == {"E1", "E2"}

\* What lines 45-152 compute from each payload of the model, computed once:
\* n the normalized fields, repo_rid the repository identifier, c the commit
\* fields, row[e] the event row stored for event identifier e.  (f @@ <<>> is
\* f, stored by TLC as a table instead of being recomputed at every use.)
FactsFrom(payload, n, c, repo_rid_str) ==
    [empty |-> payload = <<>>, n |-> n, c |-> c, repo_rid |-> repo_rid_str,
     row |-> [e \in EventIds |->
                IF n.tag = "ok" /\ c.tag = "ok"
                THEN EventRowOf(e, payload, repo_rid_str, n.event_source)
                ELSE <<>>] @@ <<>>]

\* line 92
RepoRidOf(n) ==
    IF n.tag = "ok" THEN owner_repo_to_repo_rid(n.owner, n.repo) ELSE Null

FactsOf(payload, n) == FactsFrom(payload, n, ExtractCommit(payload), RepoRidOf(n))

Facts == [pid \in PayloadIds |-> FactsOf(Payload(pid), Normalize(Payload(pid)))] @@ <<>>

\* lines 100-163; fail names the index_db function in which sqlite raises
StoreEvent(db, kobj_rid, pid, t, fail, dbcalls) ==
    IF Facts[pid].c.tag = "raise"
    THEN Result("raise", "exception", kobj_rid, Null, Null, db, dbcalls)
    ELSE IF fail = "add_event_metadata"
    THEN Result("raise", "exception", kobj_rid, Null, Null, db,
                Append(dbcalls, "add_event_metadata"))
    ELSE Result("success", "Event metadata stored", kobj_rid, Facts[pid].repo_rid,
                Facts[pid].c.commit_sha,
                add_event_metadata(db, Facts[pid].row[kobj_rid], t),
                Append(dbcalls, "add_event_metadata"))

\* lines 96-163: w is what the write of add_repository did
AfterRepoWrite(w, db, kobj_rid, pid, t, fail) ==
    IF fail = "add_repository" \/ ~w.ok
    THEN Result("raise", "exception", kobj_rid, Null, Null, db, <<"add_repository">>)
    ELSE StoreEvent([db EXCEPT !.repositories = w.rows], kobj_rid, pid, t,
                    fail, <<"add_repository">>)

\* lines 92-163, after the SELECT of add_repository answered `found`
StoreRepoAndEvent(db, kobj_rid, pid, t, fail, found) ==
    AfterRepoWrite(add_repository_write(db.repositories, Facts[pid].repo_rid,
                                        Facts[pid].n.repo_url, t, found),
                   db, kobj_rid, pid, t, fail)

\* the body of the try (lines 44-163)
IngestBody(db, kobj_rid, pid, t, fail) ==
    IF Facts[pid].n.tag = "raise"
    THEN Result("raise", "exception", kobj_rid, Null, Null, db, <<>>)
    ELSE IF Facts[pid].n.tag = "skipped"
    THEN Result("skipped", Facts[pid].n.message, kobj_rid, Null, Null, db, <<>>)
    ELSE StoreRepoAndEvent(db, kobj_rid, pid, t, fail,
                           SelectRepo(db.repositories, Facts[pid].repo_rid))

\* no except clause: the exception leaves the coroutine
ExceptMissing(r) == r

\* except Exception (lines 165-169)
ExceptToError(r) ==
    IF r.status = "raise" THEN [r EXCEPT !.status = "error"] ELSE r

process_github_event_bundle(db, kobj_rid, pid, t, fail) ==
    ExceptToError(IngestBody(db, kobj_rid, pid, t, fail))

-----------------------------------------------------------------------------
(* handlers.py: the bundle handler *)

NoEntry == "-"
Failures == {"none", "add_repository", "add_event_metadata"}

\* kobj.manifest.sha256_hash: the sender's SHA-256 of the bundle contents,
\* written as the name of the contents (distinct contents, distinct hashes)
Sha256Hash(pid) == pid

\* the hashes are never compared: a bundle seen before is always an update
ClassifyNoCompare(prev, hash) ==
    IF prev # NoEntry THEN "UPDATE" ELSE "NEW"

\* the comparison is inverted: equal hashes are reported as a change
ClassifyInverted(prev, hash) ==
    LET is_update == prev # NoEntry
        hash_changed == IF is_update THEN prev = hash ELSE TRUE
    IN  IF is_update /\ ~hash_changed THEN "UNCHANGED"
        ELSE IF is_update THEN "UPDATE"
        ELSE "NEW"

\* lines 55-67: prev is the cached manifest hash of the event, NoEntry when
\* proc.cache.read returns None (a cached bundle and a delivered bundle both
\* carry their manifest)
Classify(prev, hash) ==
    LET is_update == prev # NoEntry
        hash_changed == IF is_update THEN prev # hash ELSE TRUE
    IN  IF is_update /\ ~hash_changed THEN "UNCHANGED"
        ELSE IF is_update THEN "UPDATE"
        ELSE "NEW"

\* lines 108-117
ExceptAsync(r) ==
    IF r.status = "raise" THEN [r EXCEPT !.status = "error", !.kobj_rid = "-"] ELSE r

process_event_async(db, kobj_rid, pid, t, fail) ==
    ExceptAsync(process_github_event_bundle(db, kobj_rid, pid, t, fail))

NotCalled(db) == Result("not_called", "", "-", Null, Null, db, <<>>)

\* the handler with the UNCHANGED test after the ingest instead of before it
handle_event_bundle_stop_late(db, prev, service, kobj_rid, pid, t, fail) ==
    LET class == Classify(prev, Sha256Hash(pid))
        ret == IF class = "UNCHANGED" THEN "STOP_CHAIN" ELSE "kobj"
    IN  IF ~service \/ Facts[pid].empty
        THEN [ret |-> ret, class |-> class, out |-> NotCalled(db)]
        ELSE [ret |-> ret, class |-> class,
              out |-> process_event_async(db, kobj_rid, pid, t, fail)]

\* lines 48-105: what the handler returns (STOP_CHAIN or the object), the
\* normalized event type it sets, and the outcome of the ingest it ran
handle_event_bundle(db, prev, service, kobj_rid, pid, t, fail) ==
    LET class == Classify(prev, Sha256Hash(pid))
    IN  IF class = "UNCHANGED"
        THEN [ret |-> "STOP_CHAIN", class |-> class, out |-> NotCalled(db)]
        ELSE IF ~service \/ Facts[pid].empty
        THEN [ret |-> "kobj", class |-> class, out |-> NotCalled(db)]
        ELSE [ret |-> "kobj", class |-> class,
              out |-> process_event_async(db, kobj_rid, pid, t, fail)]

\* The processing pipeline caches the bundle of an object that the handler
\* chain returned with normalized event type NEW or UPDATE (handlers.py:75).
PipelineCache(entries, kobj_rid, hash, ret) ==
    IF ret = "kobj" THEN [entries EXCEPT ![kobj_rid] = hash] ELSE entries

-----------------------------------------------------------------------------
(* cli.py: add-repo *)

Orn == <<"o","r","n",":">>

RepoArgs ==
    {OwnerA \o <<"/">> \o RepoR, owner_repo_to_repo_rid(OwnerB, RepoR), <<"x">>}

\* lines 149-165; ok = FALSE is the error it prints
add_repo_cmd(rows, repo_arg, t) ==
    LET repo_rid == IF Find(repo_arg, "/", 1) # 0 /\ ~StartsWith(repo_arg, Orn)
                    THEN LET i == Find(repo_arg, "/", 1)
                         IN  owner_repo_to_repo_rid(SubSeq(repo_arg, 1, i - 1),
                                                    From(repo_arg, i))
                    ELSE repo_arg
        p == repo_rid_to_owner_repo(repo_rid)
    IN  IF ~p.ok THEN [ok |-> FALSE, rows |-> rows]
        ELSE add_repository(rows, repo_rid,
                 GitHubCom \o p.owner \o <<"/">> \o p.repo, t)

-----------------------------------------------------------------------------
(* The node, one operation at a time *)

Threads == {"t1", "t2"}

Idle == [rid |-> "-", pid |-> "-", fail |-> "none", service |-> FALSE,
         class |-> "-", found |-> FALSE, status |-> "-"]

\* prevpid: the payload of the operation just before, when that was a
\* delivery of the same event identifier
NoOp == [op |-> "init", rid |-> "-", pid |-> "-", fail |-> "none", class |-> "-",
         ret |-> "-", status |-> "-", kobj_rid |-> "-", repo_rid |-> Null,
         commit_sha |-> Null, dbcalls |-> <<>>, prevpid |-> "-"]

Init ==
    /\ repositories = {}
    /\ events = {}
    /\ cache = [e \in EventIds |-> NoEntry]
    /\ repository_service = FALSE
    /\ now = 1
    /\ calls = 0
    /\ last = NoOp
    /\ pc = [t \in Threads |-> "idle"]
    /\ task = [t \in Threads |-> Idle]
    /\ repo_locks = <<>>
    /\ locks = <<>>
    /\ oplog = <<>>
    /\ clears = 0
    /\ codec = <<>>
    /\ disc = <<>>

Db == [repositories |-> repositories, events |-> events]

\* time passes
Tick ==
    /\ now < MaxTime
    /\ now' = now + 1
    /\ UNCHANGED <<repositories, events, cache, repository_service, calls, last, pc, task, repo_locks, locks, oplog, clears, codec, disc>>

\* server.py:37-41
SetRepositoryService ==
    /\ ~repository_service
    /\ repository_service' = TRUE
    /\ UNCHANGED <<repositories, events, cache, now, calls, last, pc, task, repo_locks, locks, oplog, clears, codec, disc>>

\* sqlite can only raise in a function that the call reaches
CanFail(pid, fail) == fail = "none" \/ Facts[pid].n.tag = "ok"

\* r is what the handler returned for the bundle of event e: the tables are
\* as the ingest left them and the pipeline caches the bundle
Handled(r, e, pid, fail) ==
    /\ repositories' = r.out.repositories
    /\ events' = r.out.events
    /\ cache' = PipelineCache(cache, e, Sha256Hash(pid), r.ret)
    /\ last' = [op |-> "deliver", rid |-> e, pid |-> pid, fail |-> fail,
                class |-> r.class, ret |-> r.ret, status |-> r.out.status,
                kobj_rid |-> r.out.kobj_rid, repo_rid |-> r.out.repo_rid,
                commit_sha |-> r.out.commit_sha, dbcalls |-> r.out.dbcalls,
                prevpid |-> IF last.op = "deliver" /\ last.rid = e
                            THEN last.pid ELSE "-"]

\* one bundle of event e goes through the handler chain and the pipeline
Deliver(e, pid, fail) ==
    /\ calls < MaxCalls
    /\ CanFail(pid, fail)
    /\ calls' = calls + 1
    /\ Handled(handle_event_bundle(Db, cache[e], repository_service, e, pid, now, fail),
               e, pid, fail)
    /\ UNCHANGED <<repository_service, now, pc, task, repo_locks, locks, oplog, clears, codec, disc>>

AddRepoCmd(repo_arg) ==
    /\ calls < MaxCalls
    /\ calls' = calls + 1
    /\ LET r == add_repo_cmd(repositories, repo_arg, now)
       IN  /\ repositories' = r.rows
           /\ last' = [NoOp EXCEPT !.op = "add_repo",
                                   !.status = IF r.ok THEN "success" ELSE "error"]
    /\ UNCHANGED <<events, cache, repository_service, now, pc, task, repo_locks, locks, oplog, clears, codec, disc>>

\* RepositoryService.prune_old_data (repository.py:31-35)
Prune(days_to_keep) ==
    /\ calls < MaxCalls
    /\ calls' = calls + 1
    /\ events' = prune_old_data(events, days_to_keep, now)
    /\ last' = [NoOp EXCEPT !.op = "prune"]
    /\ UNCHANGED <<repositories, cache, repository_service, now, pc, task, repo_locks, locks, oplog, clears, codec, disc>>

Next ==
    \/ Tick
    \/ SetRepositoryService
    \/ \E e \in EventIds, pid \in PayloadIds, fail \in Failures : Deliver(e, pid, fail)
    \/ \E repo_arg \in RepoArgs : AddRepoCmd(repo_arg)
    \/ \E days_to_keep \in 0..MaxDays : Prune(days_to_keep)

Spec == Init /\ [][Next]_vars

-----------------------------------------------------------------------------
(* The node with two deliveries in flight.  process_github_event_bundle     *)
(* takes no lock and every index_db function opens its own connection, so   *)
(* two handler calls running on different threads interleave between their  *)
(* statements: the cache read, the SELECT of add_repository (sqlite3 opens  *)
(* the transaction only at the INSERT or UPDATE that follows it), the write *)
(* of add_repository with its commit, the transaction of                    *)
(* add_event_metadata, and the pipeline's cache write.                      *)

ConcPayloadIds == {"push1", "push2", "issue", "commit_no_sha", "unknown"}

Running(t, e, pid, fail) ==
    [rid |-> e, pid |-> pid, fail |-> fail, service |-> repository_service,
     class |-> Classify(cache[e], Sha256Hash(pid)), found |-> FALSE,
     status |-> "not_called"]

Raised(t) ==
    ExceptToError(Result("raise", "exception", task[t].rid, Null, Null, Db, <<>>)).status

\* handlers.py:55-88 and repository.py:45-90, which touch no table
Start(t, e, pid, fail) ==
    /\ pc[t] = "idle"
    /\ calls < MaxCalls
    /\ CanFail(pid, fail)
    /\ calls' = calls + 1
    /\ LET tk == Running(t, e, pid, fail)
       IN  IF tk.class = "UNCHANGED"
           THEN /\ pc' = [pc EXCEPT ![t] = "idle"]
                /\ task' = [task EXCEPT ![t] = [tk EXCEPT !.status = "stopped"]]
           ELSE IF ~repository_service \/ Facts[pid].empty
           THEN /\ pc' = [pc EXCEPT ![t] = "return"]
                /\ task' = [task EXCEPT ![t] = tk]
           ELSE IF Facts[pid].n.tag = "ok"
           THEN /\ pc' = [pc EXCEPT ![t] = "select"]
                /\ task' = [task EXCEPT ![t] = tk]
           ELSE /\ pc' = [pc EXCEPT ![t] = "return"]
                /\ task' = [task EXCEPT ![t] = [tk EXCEPT !.status =
                       process_event_async(Db, e, pid, now, fail).status]]
    /\ UNCHANGED <<repositories, events, cache, repository_service, now, last, repo_locks, locks, oplog, clears, codec, disc>>

\* index_db.py:91-96
Select(t) ==
    /\ pc[t] = "select"
    /\ IF task[t].fail = "add_repository"
       THEN /\ pc' = [pc EXCEPT ![t] = "return"]
            /\ task' = [task EXCEPT ![t].status = Raised(t)]
       ELSE /\ pc' = [pc EXCEPT ![t] = "write"]
            /\ task' = [task EXCEPT ![t].found =
                          SelectRepo(repositories, Facts[task[t].pid].repo_rid)]
    /\ UNCHANGED <<repositories, events, cache, repository_service, now, calls, last,
                   repo_locks, locks, oplog, clears, codec, disc>>

\* index_db.py:97-110
Write(t) ==
    /\ pc[t] = "write"
    /\ LET w == add_repository_write(repositories, Facts[task[t].pid].repo_rid,
                                     Facts[task[t].pid].n.repo_url, now, task[t].found)
       IN  IF w.ok
           THEN /\ repositories' = w.rows
                /\ pc' = [pc EXCEPT ![t] = "event"]
                /\ task' = task
           ELSE /\ repositories' = repositories
                /\ pc' = [pc EXCEPT ![t] = "return"]
                /\ task' = [task EXCEPT ![t].status = Raised(t)]
    /\ UNCHANGED <<events, cache, repository_service, now, calls, last, repo_locks, locks, oplog, clears, codec, disc>>

Stored(t, r) ==
    /\ repositories' = r.repositories
    /\ events' = r.events
    /\ task' = [task EXCEPT ![t].status = r.status]

\* repository.py:100-163
Event(t) ==
    /\ pc[t] = "event"
    /\ Stored(t, ExceptToError(StoreEvent(Db, task[t].rid, task[t].pid, now,
                                          task[t].fail, <<>>)))
    /\ pc' = [pc EXCEPT ![t] = "return"]
    /\ UNCHANGED <<cache, repository_service, now, calls, last, repo_locks, locks, oplog, clears, codec, disc>>

\* handlers.py:105 and the pipeline's cache write
Return(t) ==
    /\ pc[t] = "return"
    /\ cache' = PipelineCache(cache, task[t].rid, Sha256Hash(task[t].pid), "kobj")
    /\ pc' = [pc EXCEPT ![t] = "idle"]
    /\ UNCHANGED <<repositories, events, repository_service, now, calls, last, task,
                   repo_locks, locks, oplog, clears, codec, disc>>

NextConc ==
    \/ SetRepositoryService
    \/ \E t \in Threads, e \in EventIds, pid \in ConcPayloadIds, fail \in Failures :
          Start(t, e, pid, fail)
    \/ \E t \in Threads : Select(t)
    \/ \E t \in Threads : Write(t)
    \/ \E t \in Threads : Event(t)
    \/ \E t \in Threads : Return(t)
    \/ \E repo_arg \in RepoArgs : AddRepoCmd(repo_arg)
    \/ \E days_to_keep \in 0..MaxDays : Prune(days_to_keep)

SpecConc == Init /\ [][NextConc]_vars

-----------------------------------------------------------------------------
(* Properties of the node, one operation at a time *)

\* the rows of the events table for one event identifier
RowsOf(rows, e) == {r \in rows : r.event_rid = e}

\* this step is a delivery that went through the handler
Delivered == calls' = calls + 1 /\ last'.op = "deliver"

\* C1 as stated: after delivering the same (event, payload) twice in a row
\* there is exactly one stored row for the event, and the second delivery was
\* stopped as unchanged without an index store call.
C1_AsStated ==
    (last.op = "deliver" /\ last.prevpid = last.pid)
        => /\ Cardinality(RowsOf(events, last.rid)) = 1
           /\ last.ret = "STOP_CHAIN"
           /\ last.dbcalls = <<>>

\* C1 amended: the second of two identical deliveries in a row is stopped as
\* unchanged, calls no index store function and changes neither table; there
\* is at most one row for the event, and when the first delivery's ingest
\* returned success there is exactly one, the row derived from the payload.
C1_Idempotent ==
    [][(Delivered /\ last'.prevpid = last'.pid)
        => /\ last'.ret = "STOP_CHAIN"
           /\ last'.class = "UNCHANGED"
           /\ last'.dbcalls = <<>>
           /\ events' = events /\ repositories' = repositories
           /\ Cardinality(RowsOf(events', last'.rid)) <= 1
           /\ (last.status = "success"
                 => RowsOf(events', last'.rid) = {Facts[last'.pid].row[last'.rid]})]_vars

C1_Witness ==
    /\ last.op = "deliver" /\ last.prevpid = last.pid
    /\ last.ret = "STOP_CHAIN"
    /\ RowsOf(events, last.rid) = {Facts[last.pid].row[last.rid]}

\* C2 as stated: after an event is delivered with one fingerprint and then
\* with a different one, there is exactly one row for it, holding the fields
\* of the second payload, and the second ingestion is a success classified
\* UPDATE.
C2_AsStated ==
    (last.op = "deliver" /\ last.prevpid \notin {"-", last.pid})
        => /\ last.class = "UPDATE"
           /\ last.status = "success"
           /\ RowsOf(events, last.rid) = {Facts[last.pid].row[last.rid]}

\* C2 amended: the second delivery is always classified UPDATE, never NEW, and
\* there is at most one row for the event; when the second ingest returns
\* success that row holds the fields of the second payload, and otherwise the
\* events table is left as it was.
C2_UpdateDetection ==
    [][(Delivered /\ last'.prevpid \notin {"-", last'.pid})
        => /\ last'.class = "UPDATE"
           /\ Cardinality(RowsOf(events', last'.rid)) <= 1
           /\ (last'.status = "success"
                 => RowsOf(events', last'.rid) = {Facts[last'.pid].row[last'.rid]})
           /\ (last'.status # "success" => events' = events)]_vars

C2_Witness ==
    /\ last.op = "deliver" /\ last.prevpid \notin {"-", last.pid}
    /\ last.class = "UPDATE" /\ last.status = "success"
    /\ Facts[last.prevpid].n.tag = "ok"
    /\ RowsOf(events, last.rid) = {Facts[last.pid].row[last.rid]}

\* C4: the classifier answers NEW exactly when the cache holds no entry for
\* the event, UNCHANGED exactly when it holds one whose hash equals the
\* incoming hash, and UPDATE exactly when it holds one whose hash differs.
C4_Classifier ==
    [][Delivered
        => LET prev == cache[last'.rid]
               hash == Sha256Hash(last'.pid)
           IN  /\ last'.class = "NEW" <=> prev = NoEntry
               /\ last'.class = "UNCHANGED" <=> (prev # NoEntry /\ prev = hash)
               /\ last'.class = "UPDATE" <=> (prev # NoEntry /\ prev # hash)]_vars

C4_Witness ==
    /\ last.op = "deliver" /\ last.class = "UPDATE"
    /\ \E e \in EventIds : e # last.rid /\ cache[e] = NoEntry

\* C5: a delivery classified UNCHANGED changes neither table and no cache
\* entry, calls no index store function, and stops the handler chain.
C5_UnchangedNoWrite ==
    [][(Delivered /\ last'.class = "UNCHANGED")
        => /\ repositories' = repositories
           /\ events' = events
           /\ cache' = cache
           /\ last'.dbcalls = <<>>
           /\ last'.status = "not_called"
           /\ last'.ret = "STOP_CHAIN"]_vars

C5_Witness ==
    /\ last.op = "deliver" /\ last.class = "UNCHANGED" /\ last.ret = "STOP_CHAIN"
    /\ Facts[last.pid].n.tag = "ok"
    /\ repository_service
    /\ now > 1

\* The three payload shapes as C6 words them: a webhook with
\* repository.owner.login, repository.name and repository.clone_url, a
\* backfill_repo_details wrapper, a backfill_commit wrapper.
WordedShape ==
    [pid \in PayloadIds |->
        LET payload == Payload(pid)
        IN  \/ /\ Has(payload, "repository")
               /\ Has(payload["repository"], "owner")
               /\ Has(payload["repository"]["owner"], "login")
               /\ Has(payload["repository"], "name")
               /\ Has(payload["repository"], "clone_url")
            \/ /\ Has(payload, "event_source_type") /\ Has(payload, "payload")
               /\ payload["event_source_type"]
                    \in {"backfill_repo_details", "backfill_commit"}] @@ <<>>

\* The keys the payload has at its top level
HasRepositoryKey ==
    [pid \in PayloadIds |-> Has(Payload(pid), "repository")] @@ <<>>

HasBackfillKeys ==
    [pid \in PayloadIds |->
        /\ Has(Payload(pid), "event_source_type") /\ Has(Payload(pid), "payload")
        /\ Payload(pid)["event_source_type"]
             \in {"backfill_repo_details", "backfill_commit"}] @@ <<>>

Failing(pid, fail) ==
    \/ Facts[pid].n.tag = "raise"
    \/ Facts[pid].n.tag = "ok" /\ (fail # "none" \/ Facts[pid].c.tag = "raise")

C8_AllOrNothing ==
    [][(Delivered /\ last'.status = "error")
        => repositories' = repositories /\ events' = events]_vars

-----------------------------------------------------------------------------
(* Properties of the node with two deliveries in flight *)

\* C3: in every reachable state, whatever deliveries, registrations and prunes
\* ran and however they interleaved, the events table holds at most one row
\* for each event identifier.
C3_OneRowPerEvent ==
    \A r1 \in events, r2 \in events : r1.event_rid = r2.event_rid => r1 = r2

C3_Witness ==
    /\ \A t \in Threads : pc[t] = "idle" /\ task[t].status = "success"
    /\ task["t1"].rid = task["t2"].rid
    /\ task["t1"].pid # task["t2"].pid
    /\ task["t2"].class = "NEW"
    /\ Cardinality(RowsOf(events, task["t1"].rid)) = 1

\* thread t holds the lock of the repository its ingest works on
HoldsRepoLock(t) ==
    LET key == repo_rid_to_dirname(Facts[task[t].pid].repo_rid)
    IN  key \in DOMAIN repo_locks /\ locks[repo_locks[key]].holder = t

\* C9: every index store access of an ingest happens while that call holds
\* the lock of its repository, and two deliveries of the same new event that
\* are in flight together are never both classified NEW.
C9_LockedAccess ==
    /\ \A t \in Threads : pc[t] \in {"select", "write", "event"} => HoldsRepoLock(t)
    /\ ~(/\ \A t \in Threads : pc[t] # "idle"
         /\ task["t1"].rid = task["t2"].rid
         /\ \A t \in Threads : task[t].class = "NEW")

\* the tables a handler call left
TablesOf(r) == [repositories |-> r.out.repositories, events |-> r.out.events]

\* the delivery of task b, run after a handler call that returned r for task a
\* on the empty node
Then(r, a, b) ==
    handle_event_bundle(TablesOf(r),
        PipelineCache([e \in EventIds |-> NoEntry], a.rid, Sha256Hash(a.pid), r.ret)[b.rid],
        b.service, b.rid, b.pid, now, b.fail)

\* the tables after the delivery of task a has run to its end and the delivery
\* of task b has then run to its end, from the empty node
SerialOrder(a, b) ==
    TablesOf(Then(handle_event_bundle([repositories |-> {}, events |-> {}], NoEntry,
                                      a.service, a.rid, a.pid, now, a.fail),
                  a, b))

-----------------------------------------------------------------------------
(* cache_manager.py: lock keys *)

\* the working directory of the process
Cwd == <<"/", "w">>

\* sep.join(parts)
RECURSIVE Join(_, _)
Join(parts, sep) ==
    IF parts = <<>> THEN <<>>
    ELSE IF Len(parts) = 1 THEN parts[1]
    ELSE parts[1] \o sep \o Join(Tail(parts), sep)

\* posixpath.normpath: the loop over path.split('/'); rooted is whether the
\* path starts with a slash
RECURSIVE Comps(_, _, _)
Comps(parts, new_comps, rooted) ==
    IF parts = <<>> THEN new_comps
    ELSE IF Head(parts) \in {<<>>, <<".">>}
    THEN Comps(Tail(parts), new_comps, rooted)
    ELSE IF \/ Head(parts) # <<".", ".">>
            \/ ~rooted /\ new_comps = <<>>
            \/ new_comps # <<>> /\ new_comps[Len(new_comps)] = <<".", ".">>
    THEN Comps(Tail(parts), Append(new_comps, Head(parts)), rooted)
    ELSE IF new_comps # <<>>
    THEN Comps(Tail(parts), SubSeq(new_comps, 1, Len(new_comps) - 1), rooted)
    ELSE Comps(Tail(parts), new_comps, rooted)

\* posixpath.normpath keeps exactly two leading slashes
InitialSlashes(path) ==
    IF ~StartsWith(path, <<"/">>) THEN <<>>
    ELSE IF StartsWith(path, <<"/", "/">>) /\ ~StartsWith(path, <<"/", "/", "/">>)
    THEN <<"/", "/">>
    ELSE <<"/">>

NormJoined(initial_slashes, comps) ==
    IF initial_slashes = <<>> /\ comps = <<>> THEN <<".">>
    ELSE initial_slashes \o Join(comps, <<"/">>)

\* os.path.normpath
normpath(path) ==
    NormJoined(InitialSlashes(path),
               Comps(Split(path, "/"), <<>>, StartsWith(path, <<"/">>)))

\* os.path.abspath
abspath(path) ==
    IF StartsWith(path, <<"/">>) THEN normpath(path)
    ELSE normpath(Cwd \o <<"/">> \o path)

\* every key is one registry entry, whatever the path
NormKeyConstant(repo_dir) == <<"/">>

\* the path as it was given is the key
NormKeyVerbatim(repo_dir) == repo_dir

\* cache_manager.py:55 and 83
NormKey(repo_dir) == abspath(normpath(repo_dir))

\* the repo_dir arguments of the model: three spellings of /w/a (absolute,
\* relative, and with a '.' segment and a doubled separator), and /w/b
KeyPaths ==
    {<<"/", "w", "/", "a">>, <<"a">>, <<"/", "w", "/", ".", "/", "/", "a">>,
     <<"/", "w", "/", "b">>}

\* the registry key of each path of the model (lines 55 and 83)
KeyOf == [repo_dir \in KeyPaths |-> NormKey(repo_dir)] @@ <<>>

\* the directory that a path of the model names
Directory(repo_dir) == IF repo_dir = <<"/", "w", "/", "b">> THEN "b" ELSE "a"

Directories == {"a", "b"}

-----------------------------------------------------------------------------
(* cache_manager.py: with_repo_lock, get_repo_lock, clear_locks, called by   *)
(* tasks of one event loop.  A task runs without interruption from one       *)
(* suspension to the next.  The operation handed to with_repo_lock writes a  *)
(* first effect, suspends once, then writes a second effect and returns, or  *)
(* raises instead of writing it.                                             *)

NoTask == "-"

\* asyncio.Lock(): not locked, nobody waiting
FreeLock == [holder |-> NoTask, waiters |-> <<>>]

\* a setdefault that overwrites the entry it finds
SetAlways(registry, key, id) ==
    [k \in DOMAIN registry \cup {key} |-> IF k = key THEN id ELSE registry[k]]

\* repo_locks.setdefault(repo_dir, asyncio.Lock()): id is the new lock object
SetDefault(registry, key, id) ==
    IF key \in DOMAIN registry THEN registry
    ELSE [k \in DOMAIN registry \cup {key} |-> IF k = key THEN id ELSE registry[k]]

\* the lock objects after the setdefault
Created(ls, registry, key) ==
    IF SetDefault(registry, key, Len(ls) + 1)[key] = Len(ls) + 1
    THEN Append(ls, FreeLock)
    ELSE ls

\* asyncio.Lock.acquire up to its first suspension: the lock is taken when it
\* is free and nobody waits for it, otherwise the task joins the waiters
Acquire(ls, id, t) ==
    IF ls[id].holder = NoTask /\ ls[id].waiters = <<>>
    THEN [ls EXCEPT ![id].holder = t]
    ELSE [ls EXCEPT ![id].waiters = Append(@, t)]

\* a with block that releases only when its body returns
AsyncWithExitOnReturn(ls, id, how) ==
    IF how = "return" THEN [ls EXCEPT ![id].holder = NoTask] ELSE ls

\* a with block that never releases
AsyncWithExitKeeps(ls, id, how) == ls

\* the end of `async with lock` (lines 62-64): release, however the body ended
AsyncWithExit(ls, id, how) == [ls EXCEPT ![id].holder = NoTask]

\* what the operation of call number call hands to its caller
OpResult(call, how) == [kind |-> how, value |-> call]

LockIdle == [repo_dir |-> <<>>, lock |-> 0, call |-> 0, gen |-> 0,
             outcome |-> "-", result |-> <<>>]

InitLock ==
    /\ repositories = {}
    /\ events = {}
    /\ cache = [e \in EventIds |-> NoEntry]
    /\ repository_service = FALSE
    /\ now = 1
    /\ calls = 0
    /\ last = NoOp
    /\ pc = [t \in Threads |-> "idle"]
    /\ task = [t \in Threads |-> LockIdle]
    /\ repo_locks = <<>>
    /\ locks = <<>>
    /\ oplog = [d \in Directories |-> <<>>]
    /\ clears = 0
    /\ codec = <<>>
    /\ disc = <<>>

\* the first effect of the operation of task t
Began(t, tk) ==
    oplog' = [oplog EXCEPT ![Directory(tk.repo_dir)] =
                 Append(@, [call |-> tk.call, step |-> "begin", gen |-> tk.gen])]

\* lines 55-64 up to the first suspension; ls are the lock objects after the
\* setdefault and the acquire
Entered(t, tk, ls) ==
    /\ task' = [task EXCEPT ![t] = tk]
    /\ locks' = ls
    /\ IF ls[tk.lock].holder = t
       THEN pc' = [pc EXCEPT ![t] = "running"] /\ Began(t, tk)
       ELSE pc' = [pc EXCEPT ![t] = "waiting"] /\ oplog' = oplog

\* with_repo_lock(repo_dir, coro) is called by task t
WithRepoLock(t, repo_dir, outcome) ==
    /\ pc[t] = "idle"
    /\ calls < MaxCalls
    /\ calls' = calls + 1
    /\ repo_locks' = SetDefault(repo_locks, KeyOf[repo_dir], Len(locks) + 1)
    /\ Entered(t, [repo_dir |-> repo_dir, lock |-> repo_locks'[KeyOf[repo_dir]],
                   call |-> calls', gen |-> clears, outcome |-> outcome,
                   result |-> <<>>],
               Acquire(Created(locks, repo_locks, KeyOf[repo_dir]),
                       repo_locks'[KeyOf[repo_dir]], t))
    /\ UNCHANGED <<repositories, events, cache, repository_service, now, last, clears,
                   codec, disc>>

\* the waiter at the head of the queue of a released lock takes the lock and
\* its operation starts (asyncio.Lock.acquire after its suspension, line 64)
Wake(t) ==
    /\ pc[t] = "waiting"
    /\ locks[task[t].lock].holder = NoTask
    /\ Head(locks[task[t].lock].waiters) = t
    /\ locks' = [locks EXCEPT ![task[t].lock] = [holder |-> t, waiters |-> Tail(@.waiters)]]
    /\ pc' = [pc EXCEPT ![t] = "running"]
    /\ Began(t, task[t])
    /\ UNCHANGED <<repositories, events, cache, repository_service, now, calls, last,
                   task, repo_locks, clears, codec, disc>>

\* the call of task t ends: the lock is released and the caller gets what the
\* operation returned or raised (lines 64-69)
Finished(t, how) ==
    /\ locks' = AsyncWithExit(locks, task[t].lock, how)
    /\ task' = [task EXCEPT ![t].result = OpResult(task[t].call, how)]
    /\ pc' = [pc EXCEPT ![t] = "idle"]

\* the operation of task t resumes after its suspension and runs to its end
Resume(t) ==
    /\ pc[t] = "running"
    /\ oplog' = IF task[t].outcome = "return"
                THEN [oplog EXCEPT ![Directory(task[t].repo_dir)] =
                         Append(@, [call |-> task[t].call, step |-> "end",
                                    gen |-> task[t].gen])]
                ELSE oplog
    /\ Finished(t, task[t].outcome)
    /\ UNCHANGED <<repositories, events, cache, repository_service, now, calls, last,
                   repo_locks, clears, codec, disc>>

\* task t is cancelled while it waits for the lock: CancelledError leaves
\* acquire, the operation never starts
CancelWaiting(t) ==
    /\ pc[t] = "waiting"
    /\ locks' = [locks EXCEPT ![task[t].lock].waiters = SelectSeq(@, LAMBDA u : u # t)]
    /\ task' = [task EXCEPT ![t].result = OpResult(task[t].call, "cancelled")]
    /\ pc' = [pc EXCEPT ![t] = "idle"]
    /\ UNCHANGED <<repositories, events, cache, repository_service, now, calls, last,
                   repo_locks, oplog, clears, codec, disc>>

\* task t is cancelled while its operation is suspended
CancelRunning(t) ==
    /\ pc[t] = "running"
    /\ Finished(t, "cancelled")
    /\ UNCHANGED <<repositories, events, cache, repository_service, now, calls, last,
                   repo_locks, oplog, clears, codec, disc>>

\* get_repo_lock(repo_dir), lines 71-84
GetRepoLock(repo_dir) ==
    /\ calls < MaxCalls
    /\ calls' = calls + 1
    /\ repo_locks' = SetDefault(repo_locks, KeyOf[repo_dir], Len(locks) + 1)
    /\ locks' = Created(locks, repo_locks, KeyOf[repo_dir])
    /\ UNCHANGED <<repositories, events, cache, repository_service, now, last, pc, task,
                   oplog, clears, codec, disc>>

\* clear_locks(), lines 86-89
ClearLocks ==
    /\ clears < MaxClears
    /\ repo_locks' = <<>>
    /\ clears' = clears + 1
    /\ UNCHANGED <<repositories, events, cache, repository_service, now, calls, last, pc,
                   task, locks, oplog, codec, disc>>

NextLock ==
    \/ \E t \in Threads, repo_dir \in KeyPaths, outcome \in {"return", "raise"} :
          WithRepoLock(t, repo_dir, outcome)
    \/ \E t \in Threads : Wake(t)
    \/ \E t \in Threads : Resume(t)
    \/ \E t \in Threads : CancelWaiting(t)
    \/ \E t \in Threads : CancelRunning(t)
    \/ \E repo_dir \in KeyPaths : GetRepoLock(repo_dir)
    \/ ClearLocks

SpecLock == InitLock /\ [][NextLock]_vars

-----------------------------------------------------------------------------
(* Properties of with_repo_lock *)

\* tasks t and u are inside with_repo_lock calls for the same lock key
SameKey(t, u) ==
    /\ t # u
    /\ task[t].call # 0 /\ task[u].call # 0
    /\ KeyOf[task[t].repo_dir] = KeyOf[task[u].repo_dir]

\* in the log, the second effect of an operation directly follows its first
Uninterleaved(log) ==
    \A i \in 1..Len(log) :
        log[i].step = "end"
            => i > 1 /\ log[i - 1] = [log[i] EXCEPT !.step = "begin"]

\* C11 as stated: for a fixed lock key at most one operation handed to
\* with_repo_lock is running in any reachable state, and the effects of the
\* operations on one key are never interleaved.
C11_AsStated ==
    /\ \A t, u \in Threads : SameKey(t, u) => ~(pc[t] = "running" /\ pc[u] = "running")
    /\ \A d \in Directories : Uninterleaved(oplog[d])

\* Among the with_repo_lock calls for one lock key that were made with no
\* clear_locks between them, at most one operation is running in any reachable
\* state and their effects are never interleaved.
C11_MutualExclusion ==
    /\ \A t, u \in Threads :
          (SameKey(t, u) /\ task[t].gen = task[u].gen)
              => ~(pc[t] = "running" /\ pc[u] = "running")
    /\ \A d \in Directories, g \in 0..(MaxClears + 1) :
          Uninterleaved(SelectSeq(oplog[d], LAMBDA x : x.gen = g))

C11_Witness ==
    \E t, u \in Threads :
        /\ SameKey(t, u) /\ task[t].gen = task[u].gen
        /\ task[t].repo_dir # task[u].repo_dir
        /\ pc[t] = "running" /\ pc[u] = "waiting"
        /\ locks[task[t].lock].waiters = <<u>>

\* the operation of call number c has written its first effect
HasBegun(c) ==
    \E d \in Directories : \E i \in 1..Len(oplog[d]) : oplog[d][i].call = c

\* C12: after a with_repo_lock call has finished, by the operation's return,
\* by its error or by cancellation, its lock is not held by that call and the
\* caller has the operation's result or its error unchanged; a lock is held
\* only by a call whose operation is still running.
C12_ReleasedOnEveryExit ==
    /\ \A t \in Threads :
          (pc[t] = "idle" /\ task[t].call # 0)
              => /\ locks[task[t].lock].holder # t
                 /\ \A i \in 1..Len(locks[task[t].lock].waiters) :
                        locks[task[t].lock].waiters[i] # t
                 /\ task[t].result \in {OpResult(task[t].call, task[t].outcome),
                                        OpResult(task[t].call, "cancelled")}
    /\ \A id \in 1..Len(locks) :
          locks[id].holder # NoTask
              => pc[locks[id].holder] = "running" /\ task[locks[id].holder].lock = id

C12_Witness ==
    \E t, u \in Threads :
        /\ t # u /\ pc[t] = "idle" /\ pc[u] = "idle"
        /\ task[t].lock = task[u].lock
        /\ task[t].result = OpResult(task[t].call, "raise")
        /\ task[u].result = OpResult(task[u].call, "cancelled") /\ HasBegun(task[u].call)
        /\ locks[task[t].lock].holder = NoTask

\* task u is inside a with_repo_lock call for directory d: it runs its
\* operation or waits for the lock
InProgress(u, d) ==
    pc[u] \in {"running", "waiting"} /\ Directory(task[u].repo_dir) = d

\* C13: a with_repo_lock call has to wait only when another call for the same
\* directory is in progress, and a task that waits for a lock shares it only
\* with calls for the same directory: a holder of a different key never blocks it.
C13_NotBlockedByOtherKey ==
    [][\A t \in Threads :
          (pc[t] = "idle" /\ pc'[t] = "waiting")
              => /\ \E u \in Threads \ {t} : InProgress(u, Directory(task'[t].repo_dir))
                 /\ \A u \in Threads :
                        locks'[task'[t].lock].holder = u
                            => Directory(task[u].repo_dir) = Directory(task'[t].repo_dir)]_vars

\* an operation on one directory is suspended and a later call for another
\* directory has run to its end meanwhile
C13_Witness ==
    \E t, u \in Threads :
        /\ pc[t] = "running" /\ pc[u] = "idle"
        /\ Directory(task[t].repo_dir) # Directory(task[u].repo_dir)
        /\ task[t].call < task[u].call
        /\ task[u].result = OpResult(task[u].call, "return")
        /\ task[t].gen = task[u].gen

-----------------------------------------------------------------------------
(* with_repo_lock under a fair event loop: a task that can run is run (Wake), *)
(* and the operation that holds a lock comes to its end (Resume).             *)

SpecLockFair ==
    /\ InitLock /\ [][NextLock]_vars
    /\ \A t \in Threads : WF_vars(Wake(t)) /\ WF_vars(Resume(t))

\* C31: when every operation that holds a lock comes to its end and the event
\* loop runs every task that can run, a task that waits in with_repo_lock for
\* a lock eventually holds it and runs its operation, unless the task is
\* cancelled while it waits.
C31_EventuallyAcquires ==
    \A t \in Threads :
        (pc[t] = "waiting")
            ~> \/ pc[t] = "running" /\ locks[task[t].lock].holder = t
               \/ pc[t] = "idle" /\ task[t].result = OpResult(task[t].call, "cancelled")

\* the holder has released the lock and the task that waited for it is the
\* next to get it
C31_Witness ==
    \E t, u \in Threads :
        /\ pc[u] = "waiting" /\ pc[t] = "idle"
        /\ task[t].lock = task[u].lock /\ task[t].call < task[u].call
        /\ task[t].result = OpResult(task[t].call, "return")
        /\ locks[task[u].lock] = [holder |-> NoTask, waiters |-> <<u>>]

-----------------------------------------------------------------------------
(* Properties of the lock registry *)

\* C28 as stated: a registry entry is never removed or replaced, so that all
\* with_repo_lock and get_repo_lock calls for one key, at whatever time and
\* after whatever registry operations, use one lock object.
C28_AsStated ==
    [][/\ \A k \in DOMAIN repo_locks :
             k \in DOMAIN repo_locks' /\ repo_locks'[k] = repo_locks[k]
       /\ \A t, u \in Threads : SameKey(t, u) => task[t].lock = task[u].lock]_vars

\* the registry key of each directory of the model
CanonicalKey(d) == Cwd \o <<"/", d>>

-----------------------------------------------------------------------------
(* repo_locks.setdefault(repo_dir, asyncio.Lock()) (lines 58 and 84) in two  *)
(* steps, as two threads can interleave them: the argument asyncio.Lock() is *)
(* evaluated first, which makes a new lock object, then dict.setdefault runs *)
(* as one step.                                                              *)

\* the argument of setdefault is evaluated: a new lock object
NewLock(t, repo_dir) ==
    /\ pc[t] = "idle"
    /\ calls < MaxCalls
    /\ calls' = calls + 1
    /\ locks' = Append(locks, FreeLock)
    /\ task' = [task EXCEPT ![t] = [LockIdle EXCEPT !.repo_dir = repo_dir,
                                                    !.lock = Len(locks) + 1,
                                                    !.call = calls + 1]]
    /\ pc' = [pc EXCEPT ![t] = "constructed"]
    /\ UNCHANGED <<repositories, events, cache, repository_service, now, last,
                   repo_locks, oplog, clears, codec, disc>>

\* dict.setdefault: thread t gets the lock of the entry, its own if there was none
Insert(t) ==
    /\ pc[t] = "constructed"
    /\ repo_locks' = SetDefault(repo_locks, KeyOf[task[t].repo_dir], task[t].lock)
    /\ task' = [task EXCEPT ![t].lock = repo_locks'[KeyOf[task[t].repo_dir]],
                            ![t].gen = clears,
                            ![t].outcome = "lock"]
    /\ pc' = [pc EXCEPT ![t] = "idle"]
    /\ UNCHANGED <<repositories, events, cache, repository_service, now, calls, last,
                   locks, oplog, clears, codec, disc>>

NextRegistry ==
    \/ \E t \in Threads, repo_dir \in KeyPaths : NewLock(t, repo_dir)
    \/ \E t \in Threads : Insert(t)
    \/ ClearLocks

SpecRegistry == InitLock /\ [][NextRegistry]_vars

\* thread t has its lock from setdefault
Obtained(t) == pc[t] = "idle" /\ task[t].outcome = "lock"

\* C29: setdefault is an atomic insert-if-absent: two threads that access a
\* key concurrently, in whatever order their steps interleave, obtain the same
\* lock object when no clear_locks came between their accesses, and the
\* registry has one entry for the key, which holds that lock.
C29_AtomicInsertIfAbsent ==
    /\ \A t, u \in Threads :
          (/\ Obtained(t) /\ Obtained(u)
           /\ Directory(task[t].repo_dir) = Directory(task[u].repo_dir)
           /\ task[t].gen = task[u].gen)
              => task[t].lock = task[u].lock
    /\ \A t \in Threads :
          (Obtained(t) /\ task[t].gen = clears)
              => /\ NormKey(task[t].repo_dir) \in DOMAIN repo_locks
                 /\ repo_locks[NormKey(task[t].repo_dir)] = task[t].lock
                 /\ Cardinality({k \in DOMAIN repo_locks :
                                    k[Len(k)] = Directory(task[t].repo_dir)}) = 1

\* both threads made a lock object for an unregistered key before either
\* called setdefault; the thread that came second inserted first, and both
\* have its lock
C29_Witness ==
    \E t, u \in Threads :
        /\ t # u /\ Obtained(t) /\ Obtained(u)
        /\ NormKey(task[t].repo_dir) = NormKey(task[u].repo_dir)
        /\ task[t].call = 1 /\ task[u].call = 2
        /\ Len(locks) = 2 /\ clears = 0
        /\ task[t].lock = 2 /\ task[u].lock = 2
        /\ DOMAIN repo_locks = {NormKey(task[t].repo_dir)}

-----------------------------------------------------------------------------
(* The identifier, directory and URL functions on arbitrary texts *)

Alphabet == {"a", "/", "_"}

\* every text over the alphabet of at most n characters
Texts(n) == UNION {[1..k -> Alphabet] : k \in 0..n}

\* os.path.join(a, b)
PathJoin(a, b) ==
    IF StartsWith(b, <<"/">>) THEN b
    ELSE IF a = <<>> \/ a[Len(a)] = "/" THEN a \o b
    ELSE a \o <<"/">> \o b

\* cache_manager.py:22-39
get_repo_dir(base_path, repo_rid) ==
    IF ~StartsWith(repo_rid, Prefix) THEN ValueError
    ELSE abspath(normpath(PathJoin(base_path, repo_rid_to_dirname(repo_rid))))

BasePaths == {<<"c">>, <<"/", "w", "/", "c", "/">>}

\* the commit URL that text s writes when _ stands for the word repos
RECURSIVE UrlOf(_)
UrlOf(s) ==
    IF s = <<>> THEN <<>>
    ELSE (IF Head(s) = "_" THEN Repos ELSE <<Head(s)>>) \o UrlOf(Tail(s))

\* a backfill_commit payload with commit URL url
CommitPayload(url) ==
    [event_source_type |-> "backfill_commit",
     payload |-> [url |-> url, sha |-> Sha1,
                  commit |-> [author |-> [date |-> 1], message |-> "m1"]]]

\* event_type_str of lines 118-122, when lines 45-90 neither raised nor skipped
EventKind(payload, n) ==
    IF n.tag = "ok" THEN EventTypeStr(payload, n.event_source) ELSE "-"

InitCodec ==
    /\ repositories = {}
    /\ events = {}
    /\ cache = [e \in EventIds |-> NoEntry]
    /\ repository_service = FALSE
    /\ now = 1
    /\ calls = 0
    /\ last = NoOp
    /\ pc = [t \in Threads |-> "idle"]
    /\ task = [t \in Threads |-> Idle]
    /\ repo_locks = <<>>
    /\ locks = <<>>
    /\ oplog = <<>>
    /\ clears = 0
    /\ disc = <<>>
    /\ \E s1 \in Texts(MaxLen), s2 \in Texts(MaxLen) :
          codec = [s1 |-> s1, s2 |-> s2, op |-> "-", arg |-> <<>>, out |-> <<>>]

\* the call op(arg) is made and returns or raises out
Applied(op, arg, out) == [codec EXCEPT !.op = op, !.arg = arg, !.out = out]

\* repo_rid_to_owner_repo(owner_repo_to_repo_rid(owner, repo))
RoundTrip ==
    /\ codec.op = "-"
    /\ codec' = Applied("round_trip", owner_repo_to_repo_rid(codec.s1, codec.s2),
                        repo_rid_to_owner_repo(owner_repo_to_repo_rid(codec.s1, codec.s2)))
    /\ UNCHANGED <<repositories, events, cache, repository_service, now, calls, last, pc,
                   task, repo_locks, locks, oplog, clears, disc>>

\* repo_rid_to_owner_repo(repo_rid)
RepoRidToOwnerRepo(repo_rid) ==
    /\ codec.op = "-"
    /\ codec' = Applied("repo_rid_to_owner_repo", repo_rid,
                        repo_rid_to_owner_repo(repo_rid))
    /\ UNCHANGED <<repositories, events, cache, repository_service, now, calls, last, pc,
                   task, repo_locks, locks, oplog, clears, disc>>

\* get_repo_dir(base_path, rid) for two identifiers
GetRepoDir(base_path) ==
    /\ codec.op = "-"
    /\ codec' = Applied("get_repo_dir", base_path,
                        <<get_repo_dir(base_path, Prefix \o codec.s1),
                          get_repo_dir(base_path, Prefix \o codec.s2)>>)
    /\ UNCHANGED <<repositories, events, cache, repository_service, now, calls, last, pc,
                   task, repo_locks, locks, oplog, clears, disc>>

\* repo_rid_to_dirname(repo_rid)
RepoRidToDirname(repo_rid) ==
    /\ codec.op = "-"
    /\ codec' = Applied("repo_rid_to_dirname", repo_rid, repo_rid_to_dirname(repo_rid))
    /\ UNCHANGED <<repositories, events, cache, repository_service, now, calls, last, pc,
                   task, repo_locks, locks, oplog, clears, disc>>

\* lines 45-122 of process_github_event_bundle on a backfill_commit payload
\* whose commit URL is written by the two texts together
NormalizeCommit ==
    /\ codec.op = "-"
    /\ codec' = Applied("normalize", UrlOf(codec.s1 \o codec.s2),
                        [n |-> Normalize(CommitPayload(UrlOf(codec.s1 \o codec.s2))),
                         event_type_str |->
                             EventKind(CommitPayload(UrlOf(codec.s1 \o codec.s2)),
                                       Normalize(CommitPayload(UrlOf(codec.s1 \o codec.s2))))])
    /\ UNCHANGED <<repositories, events, cache, repository_service, now, calls, last, pc,
                   task, repo_locks, locks, oplog, clears, disc>>

NextCodec ==
    \/ RoundTrip
    \/ \E repo_rid \in {codec.s1, Prefix \o codec.s1, Tail(Prefix) \o codec.s1} :
          RepoRidToOwnerRepo(repo_rid)
    \/ \E base_path \in BasePaths : GetRepoDir(base_path)
    \/ \E repo_rid \in {codec.s1, Prefix \o codec.s1} : RepoRidToDirname(repo_rid)
    \/ NormalizeCommit

SpecCodec == InitCodec /\ [][NextCodec]_vars

-----------------------------------------------------------------------------
(* Properties of the identifier, directory and URL functions *)

HasSlash(s) == Find(s, "/", 1) # 0

\* C14 as stated: for every pair (owner, repo) of non-empty strings,
\* repo_rid_to_owner_repo(owner_repo_to_repo_rid(owner, repo)) = (owner, repo).
C14_AsStated ==
    (codec.op = "round_trip" /\ codec.s1 # <<>> /\ codec.s2 # <<>>)
        => codec.out = [ok |-> TRUE, owner |-> codec.s1, repo |-> codec.s2]

\* C14 amended: for every owner that contains no '/' and every repo,
\* repo_rid_to_owner_repo(owner_repo_to_repo_rid(owner, repo)) = (owner, repo).
C14_RoundTrip ==
    (codec.op = "round_trip" /\ ~HasSlash(codec.s1))
        => codec.out = [ok |-> TRUE, owner |-> codec.s1, repo |-> codec.s2]

C14_Witness ==
    /\ codec.op = "round_trip"
    /\ Len(codec.s1) > 1 /\ ~HasSlash(codec.s1)
    /\ HasSlash(codec.s2) /\ codec.s2[1] # "/"
    /\ codec.out = [ok |-> TRUE, owner |-> codec.s1, repo |-> codec.s2]

\* repo_rid has the prefix and its remainder splits on the first '/' into two
\* non-empty segments
WellFormed(repo_rid) ==
    /\ StartsWith(repo_rid, Prefix)
    /\ Find(From(repo_rid, Len(Prefix)), "/", 1) > 1
    /\ Find(From(repo_rid, Len(Prefix)), "/", 1) < Len(From(repo_rid, Len(Prefix)))

\* C15: repo_rid_to_owner_repo fails for every input that lacks the prefix or
\* whose remainder does not split on the first '/' into two non-empty
\* segments, and never returns a pair with an empty component.
C15_AsStated ==
    codec.op = "repo_rid_to_owner_repo"
        => /\ ~WellFormed(codec.arg) => ~codec.out.ok
           /\ codec.out.ok => codec.out.owner # <<>> /\ codec.out.repo # <<>>

\* C16: two distinct repository identifiers get different lock keys from
\* get_repo_dir with the same base path, also when their owner or repo names
\* contain '__'.
C16_AsStated ==
    (/\ codec.op = "get_repo_dir"
     /\ WellFormed(Prefix \o codec.s1) /\ WellFormed(Prefix \o codec.s2)
     /\ codec.s1 # codec.s2)
        => codec.out[1] # codec.out[2]

\* position of the first repos segment of the URL, 0 when it has none
FirstRepos(url_parts) ==
    IF Contains(url_parts, Repos)
    THEN CHOOSE i \in 1..Len(url_parts) :
            url_parts[i] = Repos /\ \A j \in 1..(i - 1) : url_parts[j] # Repos
    ELSE 0

\* the URL has a repos segment followed by at least two segments
Parseable(url_parts) ==
    FirstRepos(url_parts) > 0 /\ Len(url_parts) >= FirstRepos(url_parts) + 2

\* C19: for a backfill_commit payload whose commit URL, split on '/', has a
\* repos segment followed by at least two segments, owner and repo are the two
\* segments right after the first repos segment and the event kind is commit.
C19_CommitUrl ==
    (codec.op = "normalize" /\ Parseable(Split(codec.arg, "/")))
        => /\ codec.out.n.tag = "ok"
           /\ codec.out.n.owner = Split(codec.arg, "/")[FirstRepos(Split(codec.arg, "/")) + 1]
           /\ codec.out.n.repo = Split(codec.arg, "/")[FirstRepos(Split(codec.arg, "/")) + 2]
           /\ codec.out.event_type_str = "commit"

\* a URL a/repos/a/repos/a...: the first repos segment is not the first
\* segment, a second one follows, owner a and repo repos
C19_Witness ==
    /\ codec.op = "normalize"
    /\ Parseable(Split(codec.arg, "/"))
    /\ FirstRepos(Split(codec.arg, "/")) = 2
    /\ codec.out.n.tag = "ok"
    /\ codec.out.n.owner = <<"a">> /\ codec.out.n.repo = Repos
    /\ Len(Split(codec.arg, "/")) > 4

-----------------------------------------------------------------------------
(* Properties of the payload classification *)

\* the payload is webhook-shaped: repository with owner.login, name, clone_url
WebhookShaped ==
    [pid \in PayloadIds |->
        /\ Has(Payload(pid), "repository")
        /\ Has(Payload(pid)["repository"], "owner")
        /\ Has(Payload(pid)["repository"]["owner"], "login")
        /\ Has(Payload(pid)["repository"], "name")
        /\ Has(Payload(pid)["repository"], "clone_url")] @@ <<>>

\* what a webhook normalization yields: the identifier from repository, the
\* kind from event_type with default push, the commit from head_commit only
WebhookRid ==
    [pid \in PayloadIds |->
        IF WebhookShaped[pid]
        THEN Prefix \o Payload(pid)["repository"]["owner"]["login"] \o <<"/">>
               \o Payload(pid)["repository"]["name"]
        ELSE Null] @@ <<>>

WebhookKind ==
    [pid \in PayloadIds |->
        IF Has(Payload(pid), "event_type") THEN Payload(pid)["event_type"] ELSE "push"]
      @@ <<>>

WebhookCommit ==
    [pid \in PayloadIds |->
        IF Has(Payload(pid), "head_commit") /\ Has(Payload(pid)["head_commit"], "id")
        THEN Payload(pid)["head_commit"]["id"]
        ELSE Null] @@ <<>>

\* C17: the first matching shape wins: an ingest that stores a webhook-shaped
\* payload normalizes it entirely as a webhook (kind from event_type with
\* default push, commit from head_commit only), also when the payload carries
\* event_source_type and a nested payload as well.
C17_AsStated ==
    (last.op = "deliver" /\ last.status = "success" /\ WebhookShaped[last.pid])
        => /\ last.repo_rid = WebhookRid[last.pid]
           /\ last.commit_sha = WebhookCommit[last.pid]
           /\ \A r \in RowsOf(events, last.rid) :
                 /\ r.event_type = WebhookKind[last.pid]
                 /\ r.commit_sha = WebhookCommit[last.pid]

\* C18: an ingest of a webhook payload with owner.login o, name r,
\* head_commit.id s and no declared kind returns success with identifier
\* orn:github.repo:o/r and commit s in its details and stores kind push.
C18_AsStated ==
    (/\ last.op = "deliver" /\ last.status # "not_called" /\ last.fail = "none"
     /\ WebhookShaped[last.pid]
     /\ WebhookCommit[last.pid] # Null
     /\ ~Has(Payload(last.pid), "event_type"))
        => /\ last.status = "success"
           /\ last.repo_rid = WebhookRid[last.pid]
           /\ last.commit_sha = WebhookCommit[last.pid]
           /\ \A r \in RowsOf(events, last.rid) : r.event_type = "push"

\* the payload is a backfill_commit wrapper whose commit URL has no repos
\* segment, or fewer than two segments after it
UnparseableCommit ==
    [pid \in PayloadIds |->
        /\ ~Has(Payload(pid), "repository")
        /\ Has(Payload(pid), "event_source_type") /\ Has(Payload(pid), "payload")
        /\ Payload(pid)["event_source_type"] = "backfill_commit"
        /\ Has(Payload(pid)["payload"], "url")
        /\ ~Parseable(Split(Payload(pid)["payload"]["url"], "/"))] @@ <<>>

\* C20: an ingest of a backfill_commit payload whose commit URL has no repos
\* segment, or fewer than two segments after it, returns error, not skipped,
\* calls no index store function and leaves both tables as they were.
C20_UnparseableUrl ==
    [][(Delivered /\ last'.status # "not_called" /\ UnparseableCommit[last'.pid])
        => /\ last'.status = "error"
           /\ last'.dbcalls = <<>>
           /\ repositories' = repositories /\ events' = events]_vars

C20_Witness ==
    /\ last.op = "deliver" /\ last.status = "error" /\ last.dbcalls = <<>>
    /\ last.pid \in {"commit_no_repos", "commit_short_url"}
    /\ UnparseableCommit[last.pid]
    /\ repositories # {} /\ events # {}

-----------------------------------------------------------------------------
(* Properties of the repositories table *)

\* the rows of repository repo_rid
RepoRowsOf(rows, repo_rid) == {r \in rows : r.repo_rid = repo_rid}

\* the repository row that a delivery of payload pid at time t leaves behind,
\* given the rows before it
Refreshed(before, after, pid, t) ==
    /\ Cardinality(RepoRowsOf(after, Facts[pid].repo_rid)) = 1
    /\ \A r \in RepoRowsOf(after, Facts[pid].repo_rid) :
          /\ r.repo_url = Facts[pid].n.repo_url
          /\ r.last_updated = t
          /\ \A b \in RepoRowsOf(before, Facts[pid].repo_rid) :
                r.first_indexed = b.first_indexed
          /\ RepoRowsOf(before, Facts[pid].repo_rid) = {} => r.first_indexed = t

C27_NeverDeleted ==
    [][\A r \in repositories : RepoRowsOf(repositories', r.repo_rid) # {}]_vars

C27_Witness ==
    /\ last.op = "prune"
    /\ repositories # {} /\ events = {}
    /\ \E e \in EventIds : cache[e] \in {"push1", "push2"}

-----------------------------------------------------------------------------
(* index_db.py called function by function: add_repository and               *)
(* add_event_metadata with arguments of the caller's choice, beside the      *)
(* ingest, the prune and the clock of the node.  A call in which sqlite      *)
(* raises commits nothing and is no step.                                    *)

\* the repo_rid arguments of the direct calls
StoreRids == {owner_repo_to_repo_rid(OwnerA, RepoR), owner_repo_to_repo_rid(OwnerB, RepoR)}

\* index_db.add_repository(db_path, repo_rid, repo_url), lines 86-112
AddRepository(repo_rid, repo_url) ==
    /\ calls < MaxCalls
    /\ calls' = calls + 1
    /\ repositories' = add_repository(repositories, repo_rid, repo_url, now).rows
    /\ last' = [NoOp EXCEPT !.op = "add_repository", !.repo_rid = repo_rid]
    /\ UNCHANGED <<events, cache, repository_service, now, pc, task, repo_locks, locks,
                   oplog, clears, codec, disc>>

\* index_db.add_event_metadata(db_path, event_rid, repo_rid, ...), lines 114-156
AddEventMetadata(event_rid, repo_rid, timestamp) ==
    /\ calls < MaxCalls
    /\ calls' = calls + 1
    /\ repositories' =
          add_event_metadata(Db, EventRow(event_rid, repo_rid, "push", timestamp, Null,
                                          <<"Push">>, event_rid), now).repositories
    /\ events' =
          add_event_metadata(Db, EventRow(event_rid, repo_rid, "push", timestamp, Null,
                                          <<"Push">>, event_rid), now).events
    /\ last' = [NoOp EXCEPT !.op = "add_event_metadata", !.rid = event_rid,
                            !.repo_rid = repo_rid]
    /\ UNCHANGED <<cache, repository_service, now, pc, task, repo_locks, locks, oplog,
                   clears, codec, disc>>

NextStore ==
    \/ Tick
    \/ SetRepositoryService
    \/ \E e \in EventIds, pid \in ConcPayloadIds, fail \in Failures : Deliver(e, pid, fail)
    \/ \E repo_rid \in StoreRids, repo_url \in {Url1, Url2} : AddRepository(repo_rid, repo_url)
    \/ \E e \in EventIds, repo_rid \in StoreRids, timestamp \in {EmptyTs, 1} :
          AddEventMetadata(e, repo_rid, timestamp)
    \/ \E days_to_keep \in 0..MaxDays : Prune(days_to_keep)

SpecStore == Init /\ [][NextStore]_vars

-----------------------------------------------------------------------------
(* Properties of the index store *)

\* C37: in every reachable state, after any sequence of add_repository,
\* add_event_metadata, ingest and prune_old_data calls, the repository
\* identifier of every event row has a row in the repositories table.
C37_ReferentialIntegrity ==
    \A r \in events : RepoRowsOf(repositories, r.repo_rid) # {}

\* add_event_metadata was called for a repository that nobody had registered
\* and wrote the placeholder row for it
C37_Witness ==
    /\ last.op = "add_event_metadata"
    /\ \E r \in events, p \in repositories :
          /\ r.event_rid = last.rid /\ r.repo_rid = last.repo_rid
          /\ p.repo_rid = r.repo_rid /\ p.repo_url = Orn \o r.repo_rid
    /\ Cardinality(repositories) = 2

\* C38: add_repository for a repository that is already tracked writes the
\* URL it was given and the time of the call to that repository's row and
\* changes nothing else: the row keeps its first-indexed time, the other
\* repository rows and all event rows stay as they were.
C38_UpdateFrame ==
    [][(/\ calls' = calls + 1 /\ last'.op = "add_repository"
        /\ RepoRowsOf(repositories, last'.repo_rid) # {})
        => /\ events' = events
           /\ \A r \in repositories :
                 r.repo_rid # last'.repo_rid => r \in repositories'
           /\ Cardinality(repositories') = Cardinality(repositories)
           /\ \A b \in RepoRowsOf(repositories, last'.repo_rid) :
                 \E a \in repositories' :
                    /\ a.repo_rid = b.repo_rid
                    /\ a.first_indexed = b.first_indexed
                    /\ a.last_updated = now]_vars

\* a repository that an ingest created with its event row is registered again
\* later, with another URL
C38_Witness ==
    /\ last.op = "add_repository"
    /\ \E e \in events : e.repo_rid = last.repo_rid
    /\ \E r \in repositories :
          /\ r.repo_rid = last.repo_rid
          /\ r.first_indexed < r.last_updated /\ r.last_updated = now
          /\ r.repo_url = Url2

\* C35 as stated: prune_old_data removes the events older than days_to_keep
\* days and no others.  The clock of the model starts at 1 and every event is
\* ingested at the clock's time, so when days_to_keep is not less than the
\* clock's time every stored event was ingested less than days_to_keep days
\* ago, and the prune leaves the events table as it was, rows with the empty
\* timestamp included.
C35_AsStated ==
    [][\A days_to_keep \in 0..MaxDays :
          (/\ calls' = calls + 1 /\ last'.op = "prune"
           /\ days_to_keep >= now
           /\ events' = prune_old_data(events, days_to_keep, now))
              => events' = events]_vars

\* C36 as stated: every event with a recognized payload that the bundle
\* handler returns, so that the pipeline caches it, has its row in the events
\* table when the handler has returned.
C36_AsStated ==
    [][(Delivered /\ last'.ret = "kobj" /\ Facts[last'.pid].n.tag = "ok")
        => RowsOf(events', last'.rid) # {}]_vars

-----------------------------------------------------------------------------
(* handlers.py: handle_network_discovery and handle_edge_negotiation.  The   *)
(* node is built with use_kobj_processor_thread (core.py:11-14): proc.handle *)
(* puts a knowledge object on the kobj queue and the processor thread takes  *)
(* it from there.  Every call into proc and the network either returns or    *)
(* raises; which one is an input of the handler's step.                      *)

EventKinds == {"GitHubEvent", "Other"}

\* the knowledge objects of node notifications
NodeKobjs ==
    [normalized_event_type : {"NEW", "UPDATE"}, source : {"External", "Internal"},
     bundle : {"none", "invalid", "profile"}, provides : SUBSET EventKinds]

\* the rid lists a peer can answer fetch_rids with
RidLists == {<<>>, <<"E1">>, <<"E1", "E2">>}

\* what proc.handle and the peer answer during one handler call: whether the
\* edge proposal raises, what fetch_rids does, what fetch_bundles does, which
\* of the requested bundles the peer returns and in which order, and at which
\* returned bundle proc.handle raises (0: at none)
Answers ==
    [edge_raises : BOOLEAN, rids_outcome : {"raise", "None", "list"}, rids : RidLists,
     bundles_outcome : {"raise", "ok"}, found : SUBSET EventIds,
     order : {"same", "reversed"}, raise_at : 0..2]

NoAnswers ==
    [edge_raises |-> FALSE, rids_outcome |-> "None", rids |-> <<>>,
     bundles_outcome |-> "ok", found |-> {}, order |-> "same", raise_at |-> 0]

NoKobj == [normalized_event_type |-> "-", source |-> "-", bundle |-> "none",
           provides |-> {}]

\* one entry of the log of calls the handler made
Call(name, rids, bundle, source) ==
    [call |-> name, rids |-> rids, bundle |-> bundle, source |-> source]

\* the handler's progress: the calls made, the kobj queue, an exception in flight
Entry(queue) == [log |-> <<>>, queue |-> queue, raised |-> FALSE]

Issued(st, c) == [st EXCEPT !.log = Append(@, c)]

Throw(st) == [st EXCEPT !.raised = TRUE]

\* proc.handle(bundle=..., source=...): the object is queued unless the call raises
ProcHandle(st, bundle, source, raises) ==
    IF raises
    THEN Throw(Issued(st, Call("handle", <<>>, bundle, source)))
    ELSE [Issued(st, Call("handle", <<>>, bundle, source))
             EXCEPT !.queue = Append(@, [bundle |-> bundle, source |-> source])]

\* a discovery that does not look at the capability set
CapableAlways(provides) == TRUE

\* line 141
Capable(provides) == "GitHubEvent" \in provides

Reverse(q) == [i \in 1..Len(q) |-> q[Len(q) + 1 - i]]

\* bundle_payload.bundles: the bundles of the requested rids that the peer has
Returned(a) ==
    IF a.order = "reversed"
    THEN Reverse(SelectSeq(a.rids, LAMBDA e : e \in a.found))
    ELSE SelectSeq(a.rids, LAMBDA e : e \in a.found)

\* a loop that feeds the bundles last to first
RECURSIVE ReplayBackwards(_, _, _)
ReplayBackwards(st, bundles, raise_at) ==
    IF bundles = <<>> THEN st
    ELSE IF raise_at = Len(bundles)
    THEN ProcHandle(st, bundles[Len(bundles)], "External", TRUE)
    ELSE ReplayBackwards(ProcHandle(st, bundles[Len(bundles)], "External", FALSE),
                         SubSeq(bundles, 1, Len(bundles) - 1), raise_at)

\* lines 161-162: the loop ends at the first proc.handle that raises
RECURSIVE Replay(_, _, _)
Replay(st, bundles, raise_at) ==
    IF bundles = <<>> THEN st
    ELSE IF raise_at = 1 THEN ProcHandle(st, Head(bundles), "External", TRUE)
    ELSE Replay(ProcHandle(st, Head(bundles), "External", FALSE), Tail(bundles),
                raise_at - 1)

\* lines 160-162
FetchAndReplay(st, a) ==
    IF a.bundles_outcome = "raise" THEN Throw(st)
    ELSE Replay(st, Returned(a), a.raise_at)

\* lines 156-162
Backfill(st, a) ==
    IF a.rids_outcome = "raise" THEN Throw(Issued(st, Call("fetch_rids", <<>>, "-", "-")))
    ELSE IF a.rids_outcome = "None" \/ a.rids = <<>>
    THEN Issued(st, Call("fetch_rids", <<>>, "-", "-"))
    ELSE FetchAndReplay(Issued(Issued(st, Call("fetch_rids", <<>>, "-", "-")),
                               Call("fetch_bundles", a.rids, "-", "-")), a)

\* an except clause that is not there
ExceptNodeMissing(st) == st

\* lines 163-164
ExceptBackfill(st) == [st EXCEPT !.raised = FALSE]

\* lines 165-166
ExceptNode(st) == [st EXCEPT !.raised = FALSE]

\* lines 144-164; kobj.rid is a KoiNetNode, the handler is registered for no
\* other type
Discovered(st, a) ==
    IF a.edge_raises THEN ProcHandle(st, "edge", "Internal", TRUE)
    ELSE ExceptBackfill(Backfill(ProcHandle(st, "edge", "Internal", FALSE), a))

\* what the handler hands back: ret is None, kobj, or raise for an exception
\* that leaves it
Handed(ret, st) ==
    [ret |-> IF st.raised THEN "raise" ELSE ret, log |-> st.log, queue |-> st.queue]

\* a handler that starts the discovery for every notification with a bundle
handle_network_discovery_any(queue, kobj, a) ==
    IF kobj.bundle = "none" THEN Handed("None", Entry(queue))
    ELSE IF kobj.bundle = "invalid" THEN Handed("kobj", ExceptNode(Throw(Entry(queue))))
    ELSE Handed("kobj", ExceptNode(Discovered(Entry(queue), a)))

\* lines 121-168
handle_network_discovery(queue, kobj, a) ==
    IF kobj.normalized_event_type # "NEW" THEN Handed("None", Entry(queue))
    ELSE IF kobj.source # "External" THEN Handed("None", Entry(queue))
    ELSE IF kobj.bundle = "none" THEN Handed("None", Entry(queue))
    ELSE IF kobj.bundle = "invalid" THEN Handed("kobj", ExceptNode(Throw(Entry(queue))))
    ELSE IF ~Capable(kobj.provides) THEN Handed("None", Entry(queue))
    ELSE Handed("kobj", ExceptNode(Discovered(Entry(queue), a)))

\* lines 146-151: the edge that the handler proposes goes from this node to
\* the discovered peer.  The notifications of the model are about one peer,
\* "other" in the edges.
edge_bundle == [source |-> "self", target |-> "other", status |-> "proposed"]

\* the knowledge objects of edge notifications; contents "malformed" is a
\* bundle whose contents have no get
EdgeKobjs ==
    [source : {"External", "Internal"}, bundle : {"none", "edge", "malformed"},
     target : {"self", "other"}, status : {"approved", "proposed"}]

\* an approval that starts the backfill again
handle_edge_negotiation_refetch(queue, kobj) ==
    IF kobj.source # "External" \/ kobj.bundle = "none" THEN Handed("None", Entry(queue))
    ELSE IF kobj.bundle = "edge" /\ kobj.target = "self" /\ kobj.status = "approved"
    THEN Handed("kobj", Issued(Entry(queue), Call("fetch_rids", <<>>, "-", "-")))
    ELSE Handed("kobj", Entry(queue))

\* lines 171-200
handle_edge_negotiation(queue, kobj) ==
    IF kobj.source # "External" THEN Handed("None", Entry(queue))
    ELSE IF kobj.bundle = "none" THEN Handed("None", Entry(queue))
    ELSE IF kobj.bundle = "malformed"
    THEN Handed("kobj", [Throw(Entry(queue)) EXCEPT !.raised = FALSE])
    ELSE Handed("kobj", Entry(queue))

\* lines 179-195: the handler reaches the log line "Edge approved by sensor"
EdgeApproved(kobj) ==
    /\ kobj.source = "External" /\ kobj.bundle = "edge"
    /\ kobj.target = "self" /\ kobj.status = "approved"

\* the answers that the handler's path does not ask for are left at their
\* defaults
Asked(kobj, a) ==
    IF \/ kobj.normalized_event_type # "NEW" \/ kobj.source # "External"
       \/ kobj.bundle # "profile" \/ ~Capable(kobj.provides)
    THEN a = NoAnswers
    ELSE IF a.edge_raises THEN a = [NoAnswers EXCEPT !.edge_raises = TRUE]
    ELSE IF a.rids_outcome # "list" \/ a.rids = <<>>
    THEN a = [NoAnswers EXCEPT !.rids_outcome = a.rids_outcome]
    ELSE IF a.bundles_outcome = "raise"
    THEN a = [NoAnswers EXCEPT !.rids_outcome = "list", !.rids = a.rids,
                               !.bundles_outcome = "raise"]
    ELSE /\ a.found \subseteq {a.rids[i] : i \in 1..Len(a.rids)}
         /\ a.raise_at <= Cardinality(a.found)
         /\ Cardinality(a.found) < 2 => a.order = "same"

\* the node notifications of the model, each with the answers it asks for
Notifications ==
    {n \in NodeKobjs \X Answers :
        /\ Asked(n[1], n[2])
        /\ n[1].bundle # "profile" => n[1].provides = {}}

\* the edge notifications of the model
EdgeNotifications ==
    {kobj \in EdgeKobjs :
        kobj.bundle # "edge" => kobj.target = "other" /\ kobj.status = "proposed"}

\* the contents of the bundle that the peer holds for event e
PeerPayload(e) == IF e = "E1" THEN "push1" ELSE "commit"

\* proposals counts the edge proposals handed to the pipeline so far, approved tells whether the
\* last handle_edge_negotiation call logged an approval
NoDisc == [op |-> "-", kobj |-> NoKobj, answers |-> NoAnswers, log |-> <<>>,
           ret |-> "-", queue |-> <<>>, proposals |-> 0, approved |-> FALSE]

InitDiscovery ==
    /\ repositories = {}
    /\ events = {}
    /\ cache = [e \in EventIds |-> NoEntry]
    /\ repository_service = FALSE
    /\ now = 1
    /\ calls = 0
    /\ last = NoOp
    /\ pc = [t \in Threads |-> "idle"]
    /\ task = [t \in Threads |-> Idle]
    /\ repo_locks = <<>>
    /\ locks = <<>>
    /\ oplog = <<>>
    /\ clears = 0
    /\ codec = <<>>
    /\ disc = NoDisc

\* r is what the handler handed back for notification kobj
Notified(op, kobj, a, r) ==
    disc' = [op |-> op, kobj |-> kobj, answers |-> a, log |-> r.log, ret |-> r.ret,
             queue |-> r.queue,
             proposals |-> disc.proposals
                 + Len(SelectSeq(r.queue, LAMBDA k : k.bundle = "edge"))
                 - Len(SelectSeq(disc.queue, LAMBDA k : k.bundle = "edge")),
             approved |-> op = "handle_edge_negotiation" /\ EdgeApproved(kobj)]

\* the pipeline calls handle_network_discovery with a node object
HandleNetworkDiscovery(kobj, a) ==
    /\ calls < MaxCalls
    /\ calls' = calls + 1
    /\ Notified("handle_network_discovery", kobj, a,
                handle_network_discovery(disc.queue, kobj, a))
    /\ UNCHANGED <<repositories, events, cache, repository_service, now, last, pc,
                   task, repo_locks, locks, oplog, clears, codec>>

\* the pipeline calls handle_edge_negotiation with an edge object
HandleEdgeNegotiation(kobj) ==
    /\ calls < MaxCalls
    /\ calls' = calls + 1
    /\ Notified("handle_edge_negotiation", kobj, NoAnswers,
                handle_edge_negotiation(disc.queue, kobj))
    /\ UNCHANGED <<repositories, events, cache, repository_service, now, last, pc,
                   task, repo_locks, locks, oplog, clears, codec>>

\* the processor thread takes the next object from the kobj queue; an event
\* bundle goes through handle_event_bundle and the pipeline
ProcessKobj ==
    /\ disc.queue # <<>>
    /\ disc' = [disc EXCEPT !.op = "process", !.queue = Tail(@)]
    /\ IF Head(disc.queue).bundle \in EventIds
       THEN Handled(handle_event_bundle(Db, cache[Head(disc.queue).bundle],
                                        repository_service, Head(disc.queue).bundle,
                                        PeerPayload(Head(disc.queue).bundle), now, "none"),
                    Head(disc.queue).bundle, PeerPayload(Head(disc.queue).bundle), "none")
       ELSE UNCHANGED <<repositories, events, cache, last>>
    /\ UNCHANGED <<repository_service, now, calls, pc, task, repo_locks, locks, oplog,
                   clears, codec>>

\* server.py:37-41, while the node runs
ServiceSet ==
    /\ ~repository_service
    /\ repository_service' = TRUE
    /\ UNCHANGED <<repositories, events, cache, now, calls, last, pc, task, repo_locks,
                   locks, oplog, clears, codec, disc>>

NextDiscovery ==
    \/ \E n \in Notifications : HandleNetworkDiscovery(n[1], n[2])
    \/ \E kobj \in EdgeNotifications : HandleEdgeNegotiation(kobj)
    \/ ProcessKobj
    \/ ServiceSet

SpecDiscovery == InitDiscovery /\ [][NextDiscovery]_vars

-----------------------------------------------------------------------------
(* Properties of the discovery and edge handlers *)

\* this step is a call of handle_network_discovery
DiscoveryStep == calls' = calls + 1 /\ disc'.op = "handle_network_discovery"

\* this step is a call of handle_edge_negotiation
EdgeStep == calls' = calls + 1 /\ disc'.op = "handle_edge_negotiation"

\* the notification is a new, external node object with a valid profile
NewPeer(kobj) ==
    /\ kobj.normalized_event_type = "NEW" /\ kobj.source = "External"
    /\ kobj.bundle = "profile"

\* C21: when the capability set of a discovered peer does not include
\* GitHubEvent, the discovery handler proposes no edge, issues no identifier
\* fetch and no bundle fetch, and feeds nothing to the pipeline.
C21_CapabilityGate ==
    [][(DiscoveryStep /\ "GitHubEvent" \notin disc'.kobj.provides)
        => /\ disc'.log = <<>>
           /\ disc'.queue = disc.queue
           /\ repositories' = repositories /\ events' = events /\ cache' = cache]_vars

C21_Witness ==
    /\ disc.op = "handle_network_discovery"
    /\ NewPeer(disc.kobj) /\ disc.kobj.provides = {"Other"}
    /\ disc.log = <<>> /\ disc.ret = "None"
    /\ Len(disc.queue) = 3

IsPrefix(p, q) == Len(p) <= Len(q) /\ p = SubSeq(q, 1, Len(p))

\* the calls of a backfill in which nothing fails, for answers a
ProtocolCalls(a) ==
    <<Call("handle", <<>>, "edge", "Internal"), Call("fetch_rids", <<>>, "-", "-")>>
      \o (IF a.rids_outcome = "list" /\ a.rids # <<>>
          THEN <<Call("fetch_bundles", a.rids, "-", "-")>>
                 \o [i \in 1..Len(Returned(a)) |->
                        Call("handle", <<>>, Returned(a)[i], "External")]
          ELSE <<>>)

\* what those calls put on the kobj queue
ProtocolQueue(a) ==
    <<[bundle |-> "edge", source |-> "Internal"]>>
      \o (IF a.rids_outcome = "list" /\ a.rids # <<>>
          THEN [i \in 1..Len(Returned(a)) |->
                   [bundle |-> Returned(a)[i], source |-> "External"]]
          ELSE <<>>)

NoFailure(a) ==
    /\ ~a.edge_raises /\ a.rids_outcome # "raise" /\ a.bundles_outcome # "raise"
    /\ a.raise_at = 0

\* C22: for a capable new peer the handler proposes the edge first, then asks
\* for the peer's event identifiers; with an empty list it stops, otherwise it
\* asks for the bundles of exactly those identifiers and feeds every returned
\* bundle to the pipeline once, as external, in the order returned.  The calls
\* made are always an initial part of this sequence, and the whole of it when
\* no call fails.
C22_BackfillOrder ==
    [][(DiscoveryStep /\ NewPeer(disc'.kobj) /\ "GitHubEvent" \in disc'.kobj.provides)
        => /\ IsPrefix(disc'.log, ProtocolCalls(disc'.answers))
           /\ disc.queue \o ProtocolQueue(disc'.answers) = disc'.queue
                \/ ~NoFailure(disc'.answers)
           /\ NoFailure(disc'.answers) => disc'.log = ProtocolCalls(disc'.answers)
           /\ IsPrefix(disc.queue, disc'.queue)
           /\ IsPrefix(SubSeq(disc'.queue, Len(disc.queue) + 1, Len(disc'.queue)),
                       ProtocolQueue(disc'.answers))]_vars

C22_Witness ==
    /\ disc.op = "handle_network_discovery"
    /\ NoFailure(disc.answers) /\ disc.answers.order = "reversed"
    /\ Len(disc.log) = 5 /\ Len(disc.queue) = 4
    /\ disc.ret = "kobj"

\* C23: a failure while one historical item is fetched or replayed does not
\* end the backfill loop: every other bundle that the peer returned is still
\* fed to the pipeline.
C23_AsStated ==
    (/\ disc.op = "handle_network_discovery"
     /\ NewPeer(disc.kobj) /\ "GitHubEvent" \in disc.kobj.provides
     /\ ~disc.answers.edge_raises /\ disc.answers.rids_outcome = "list"
     /\ disc.answers.bundles_outcome = "ok")
        => \A i \in 1..Len(Returned(disc.answers)) :
              i # disc.answers.raise_at
                => \E j \in 1..Len(disc.log) :
                      disc.log[j] = Call("handle", <<>>, Returned(disc.answers)[i],
                                         "External")

\* a call made by the handler failed
Failed(kobj, a) ==
    /\ kobj.normalized_event_type = "NEW" /\ kobj.source = "External"
    /\ \/ kobj.bundle = "invalid"
       \/ a.edge_raises \/ a.rids_outcome = "raise" \/ a.bundles_outcome = "raise"
       \/ a.raise_at > 0

\* C24: no failure of the edge proposal, the identifier fetch, the bundle
\* fetch or the replay of a bundle leaves the discovery handler: it returns
\* normally, and after a failure it returns the node object, which continues
\* down the handler chain.
C24_NoFailureEscapes ==
    disc.op = "handle_network_discovery"
        => /\ disc.ret \in {"None", "kobj"}
           /\ Failed(disc.kobj, disc.answers) => disc.ret = "kobj"

C24_Witness ==
    /\ disc.op = "handle_network_discovery"
    /\ disc.answers.raise_at = 2 /\ disc.ret = "kobj"
    /\ Len(disc.log) = 5

\* C25: handle_edge_negotiation issues no identifier fetch, no bundle fetch
\* and no edge proposal, feeds nothing to the pipeline and writes nothing to
\* the index store, for every edge notification.
C25_ApprovalDoesNothing ==
    [][EdgeStep
        => /\ disc'.log = <<>>
           /\ disc'.queue = disc.queue
           /\ disc'.ret \in {"None", "kobj"}
           /\ repositories' = repositories /\ events' = events /\ cache' = cache]_vars

C25_Witness ==
    /\ disc.op = "handle_edge_negotiation"
    /\ disc.kobj.source = "External" /\ disc.kobj.bundle = "edge"
    /\ disc.kobj.target = "self" /\ disc.kobj.status = "approved"
    /\ disc.ret = "kobj" /\ disc.log = <<>>
    /\ Len(disc.queue) = 3

\* C32 as stated: over any sequence of discovery notifications at most one
\* subscription edge is proposed for a peer and event kind, and a notification
\* whose normalized event type is not NEW proposes none.
C32_AsStated ==
    /\ disc.proposals <= 1
    /\ (disc.op = "handle_network_discovery" /\ disc.kobj.normalized_event_type # "NEW")
          => disc.log = <<>>

\* C33: for a node object whose normalized event type is not NEW, whose source
\* is not External, or that has no bundle, handle_network_discovery returns
\* None at once: it proposes no edge, asks the peer for nothing and feeds
\* nothing to the pipeline.
C33_OnlyNewExternalPeers ==
    [][(/\ DiscoveryStep
        /\ \/ disc'.kobj.normalized_event_type # "NEW"
           \/ disc'.kobj.source # "External"
           \/ disc'.kobj.bundle = "none")
        => /\ disc'.ret = "None"
           /\ disc'.log = <<>>
           /\ disc'.queue = disc.queue
           /\ disc'.proposals = disc.proposals]_vars

\* an update about a capable peer, from outside, after the peer's first
\* notification led to a proposal
C33_Witness ==
    /\ disc.op = "handle_network_discovery"
    /\ disc.kobj.normalized_event_type = "UPDATE" /\ disc.kobj.source = "External"
    /\ disc.kobj.bundle = "profile" /\ disc.kobj.provides = {"GitHubEvent"}
    /\ disc.ret = "None" /\ disc.log = <<>>
    /\ disc.proposals = 1

\* C34 as stated: when the edge that handle_network_discovery proposed for the
\* peer comes back from the peer with status approved, handle_edge_negotiation
\* finds its approval condition true and logs the subscription as active.
C34_AsStated ==
    (/\ disc.op = "handle_edge_negotiation"
     /\ disc.proposals > 0
     /\ disc.kobj.source = "External" /\ disc.kobj.bundle = "edge"
     /\ disc.kobj.target = edge_bundle.target /\ disc.kobj.status = "approved")
        => disc.approved

====
